---- MODULE Spec2Model ----
(***************************************************************************)
(* State-machine model of the FPPC advice-letter pipeline: the State Store *)
(* (table "documents"), the local binaries under data/raw_pdfs, the        *)
(* Structured Record files under data/extracted, and the Verifier reports  *)
(* under data/qa_reports.  Scores are integers in hundredths (0.70 = 70).  *)
(***************************************************************************)
EXTENDS Integers, Sequences, FiniteSets, TLC

\* ------------------------------------------------------------------ bounds
NumDocs == 2
MaxChunks == 2
MaxCrashes == 1

\* ------------------------------------------------------- program constants
MAX_RETRIES == 3

Docs == 1..NumDocs
ChunkVals == {1, 2}

NULL == "NULL"
NoPdf == <<0>>
NoPath == <<>>
NoRec == [exists |-> FALSE]
NoScore == 0 - 1
NoLetterId == <<>>

Years == {2021, 2022}
FileNames == {<<"letter", k>> : k \in Docs}
LetterIds == {<<"A", 22, 78>>}

\* Response bodies a binary URL can serve: up to MaxChunks chunks.
Bodies == UNION {[1..n -> ChunkVals] : n \in 0..MaxChunks}

\* Record ids: catalog letter ids, and the synthetic UNK-yy-ddddd ids.
RecIds == LetterIds \cup {<<"UNK", y % 100, d>> : y \in Years, d \in Docs}
RecPaths == Years \X RecIds
NoEntry == [present |-> FALSE]

\* crashes counts the runs that were killed or failed half way.
VARIABLES rows, pdfs, recs, canary_report, validation_report, crashes

\* run is the paid-API script now running: its queue length, its spend so
\* far (in cost units) and the limit it was started with.
VARIABLES run

\* The crawler: checkpoint is data/checkpoint.json, crawl the position of the
\* running crawl_all, crawled the result pages whose rows have been inserted.
VARIABLES checkpoint, crawl, crawled

\* Phase 1 step by step: report_file is canary_scan.json as a list of results,
\* scan the running run_tesseract_canary.py.  canary_report is the reading of
\* the last complete report by document.
VARIABLES report_file, scan

\* State local to one call: llm_call is the last LLMExtractor._call_llm,
\* page_loop the page loop of the running crawl_year, call a function of the
\* record pipeline applied to one input.
VARIABLES llm_call, page_loop, call

NotInLoop == [running |-> FALSE, year |-> 0, start_page |-> 1, page |-> 1, total_pages |-> 0,
              attempts |-> 0, documents_found |-> 0]
NoFunction == [op |-> "none"]

pipeline == <<rows, pdfs, recs, canary_report, validation_report, crashes>>
aux == <<run, checkpoint, crawl, crawled, report_file, scan>>
locals == <<llm_call, page_loop, call>>
vars == <<pipeline, aux, locals>>

Crash(killed) ==
    /\ killed => crashes < MaxCrashes
    /\ crashes' = IF killed THEN crashes + 1 ELSE crashes

\* ------------------------------------------------------------ State Store
\* A row as the crawler's INSERT leaves it: catalog columns set, every
\* status column at its default.
insert_document(url, lid, year) ==
    [pdf_url |-> url, letter_id |-> lid, year_tag |-> year,
     download_status |-> "pending", pdf_size_bytes |-> NoScore, pdf_sha256 |-> NoScore,
     extraction_status |-> "pending", extraction_method |-> NULL,
     extraction_quality |-> NoScore, section_confidence |-> NoScore,
     json_path |-> NoPath,
     needs_llm_extraction |-> 0, llm_extracted_at |-> NULL,
     fidelity_score |-> NoScore, fidelity_method |-> NULL, fidelity_risk |-> NULL]

update_download_status_keepsPending(r, status, size, sha) == r

update_download_status(r, status, size, sha) ==
    IF status = "downloaded"
    THEN [r EXCEPT !.download_status = status, !.pdf_size_bytes = size, !.pdf_sha256 = sha]
    ELSE [r EXCEPT !.download_status = status]

\* ---------------------------------------------------------- Binary Fetcher
\* A pdf_url is <<directory part, last path segment>>; the local binary is
\* named by the year and the last segment alone.
get_pdf_path(r) == <<r.year_tag, r.pdf_url[2]>>

PdfPaths == Years \X FileNames

\* hashlib.sha256(f.read()): the digest of a whole file, as a base-3 numeral
\* of its chunks (injective on chunk sequences, as SHA-256 is taken to be).
RECURSIVE Pow3(_)
Pow3(n) == IF n = 0 THEN 1 ELSE 3 * Pow3(n - 1)

RECURSIVE Sha256(_)
Sha256(s) ==
    IF s = <<>> THEN 0
    ELSE s[1] * Pow3(Len(s) - 1) + Sha256(Tail(s))

\* One pass of the streaming loop of download_pdf over the first k chunks of
\* the response: each chunk is written, fed to the running digest, counted.
StreamChunk_dropsWrite(st, chunk) ==
    [file |-> st.file, sha |-> st.sha * 3 + chunk, size |-> st.size + 1]

StreamChunk(st, chunk) ==
    [file |-> Append(st.file, chunk), sha |-> st.sha * 3 + chunk, size |-> st.size + 1]

RECURSIVE iter_content(_, _)
iter_content(body, k) ==
    IF k = 0 THEN [file |-> <<>>, sha |-> 0, size |-> 0]
    ELSE StreamChunk(iter_content(body, k - 1), body[k])

\* download_pdf: `fails` attempts raise RequestException (each one's partial
\* file is unlinked), the next one succeeds; None once the retries are used up.
download_pdf(body, fails) ==
    IF fails < MAX_RETRIES
    THEN [ok |-> TRUE, out |-> iter_content(body, Len(body))]
    ELSE [ok |-> FALSE, out |-> iter_content(body, 0)]

\* One iteration of the loop of download_pending over the pending rows.
download_pending(d, body, fails) ==
    LET r == rows[d]
        dest == get_pdf_path(r)
    IN  /\ r.download_status = "pending"
        /\ IF pdfs[dest] # NoPdf
           THEN /\ rows' = [rows EXCEPT ![d] = update_download_status(
                                r, "downloaded", Len(pdfs[dest]), Sha256(pdfs[dest]))]
                /\ pdfs' = pdfs
           ELSE LET result == download_pdf(body, fails)
                IN  IF result.ok
                    THEN /\ pdfs' = [pdfs EXCEPT ![dest] = result.out.file]
                         /\ rows' = [rows EXCEPT ![d] = update_download_status(
                                         r, "downloaded", result.out.size, result.out.sha)]
                    ELSE /\ pdfs' = pdfs
                         /\ rows' = [rows EXCEPT ![d] = update_download_status(
                                         r, "failed", NoScore, NoScore)]
        /\ UNCHANGED <<recs, canary_report, validation_report, crashes, aux, locals>>

\* The process is killed inside the streaming loop of download_pdf (or after
\* it, before update_download_status): k chunks are on disk, the row is
\* still pending.
download_interrupted(d, body, k) ==
    LET r == rows[d]
        dest == get_pdf_path(r)
    IN  /\ r.download_status = "pending"
        /\ pdfs[dest] = NoPdf
        /\ pdfs' = [pdfs EXCEPT ![dest] = iter_content(body, k).file]
        /\ Crash(TRUE)
        /\ UNCHANGED <<rows, recs, canary_report, validation_report, aux, locals>>

\* ------------------------------------------------------------- State Store
\* update_extraction_status: COALESCE keeps a column when the argument is
\* NULL; needs_llm_extraction is overwritten on every call.
update_extraction_status(r, status, method, quality, section_confidence, json_path, needs_llm) ==
    [r EXCEPT !.extraction_status = status,
              !.extraction_method = IF method # NULL THEN method ELSE @,
              !.extraction_quality = IF quality # NoScore THEN quality ELSE @,
              !.section_confidence = IF section_confidence # NoScore
                                     THEN section_confidence ELSE @,
              !.json_path = IF json_path # NoPath THEN json_path ELSE @,
              !.needs_llm_extraction = IF needs_llm THEN 1 ELSE 0]

update_fidelity(r, score, method, risk) ==
    [r EXCEPT !.fidelity_score = score, !.fidelity_method = method,
              !.fidelity_risk = risk]

\* --------------------------------------------------------------- Extractor
OCR_YEAR_THRESHOLD == 1990
OCR_QUALITY_THRESHOLD == 50
OCR_WORDS_PER_PAGE_MIN == 80
OCR_ALPHA_RATIO_MIN == 70

should_use_olmocr(year, metrics) ==
    \/ year < OCR_YEAR_THRESHOLD
    \/ metrics.final_score < OCR_QUALITY_THRESHOLD
    \/ metrics.words_per_page < OCR_WORDS_PER_PAGE_MIN
    \/ metrics.alpha_ratio < OCR_ALPHA_RATIO_MIN
    \/ metrics.garbage_word_count > 5

\* What extract_native + compute_quality_score can return for a binary.
Metrics(score, wpp, alpha, garbage) ==
    [final_score |-> score, words_per_page |-> wpp, alpha_ratio |-> alpha,
     garbage_word_count |-> garbage]
NativeFailed == [final_score |-> NoScore]
NativeMetrics == {Metrics(90, 300, 90, 0), Metrics(40, 40, 60, 9)}

\* What extract_olmocr + compute_quality_score can return: None, or a score.
OlmocrScores == {NoScore, 40, 95}

\* What parse_sections can return.
Sections(method, confidence, standard, question, conclusion) ==
    [extraction_method |-> method, extraction_confidence |-> confidence,
     has_standard_format |-> standard, question |-> question, conclusion |-> conclusion]
SectionResult(method, confidence, standard) ==
    Sections(method, confidence, standard,
             IF standard THEN "regex question" ELSE "",
             IF standard THEN "regex conclusion" ELSE "")
SectionResults == {SectionResult("regex_validated", 90, TRUE), SectionResult("none", 0, FALSE)}

\* The fields of the ExtractionInfo dataclass, in declaration order: the keys
\* of the "extraction" object of a record file as asdict emits them.
ExtractionInfoFields ==
    <<"method", "extracted_at", "page_count", "word_count", "char_count",
      "quality_score", "olmocr_cost", "native_word_count">>

\* parsing_notes holds the notes appended after the section parser's own.
\* process_document of the Extractor.  native: the outcome of extract_native
\* (NativeFailed when it raises); olm: the outcome of extract_olmocr; rid:
\* the id _extract_letter_id_from_text finds (NoLetterId for none).
process_document(r, doc_id, skip_olmocr, force_olmocr, native, olm, rid, sec) ==
    IF pdfs[get_pdf_path(r)] = NoPdf \/ native = NativeFailed THEN NoRec
    ELSE LET recovered == IF r.letter_id # NoLetterId THEN r.letter_id ELSE rid
             letter_id == IF recovered # NoLetterId THEN recovered
                          ELSE <<"UNK", r.year_tag % 100, doc_id>>
             tried == /\ ~skip_olmocr
                      /\ (force_olmocr \/ should_use_olmocr(r.year_tag, native))
                      /\ olm # NoScore
             adopted == tried /\ olm > native.final_score
         IN  [exists |-> TRUE, id |-> letter_id, year |-> r.year_tag,
              pdf_url |-> <<"https://fppc.ca.gov", r.pdf_url>>,
              pdf_sha256 |-> r.pdf_sha256,
              method |-> IF adopted THEN "olmocr"
                         ELSE IF tried THEN "native+olmocr" ELSE "native",
              quality_score |-> IF adopted THEN olm ELSE native.final_score,
              words_per_page |-> IF adopted THEN 300 ELSE native.words_per_page,
              sections_method |-> sec.extraction_method,
              extraction_confidence |-> sec.extraction_confidence,
              has_standard_format |-> sec.has_standard_format,
              question |-> sec.question, conclusion |-> sec.conclusion,
              extraction_keys |-> ExtractionInfoFields,
              parsing_notes |-> <<>>]

\* to_json: json.dumps(asdict(doc)) writes the keys in declaration order.
to_json(doc) == [doc EXCEPT !.extraction_keys = ExtractionInfoFields]

\* from_json: ExtractionInfo(**data["extraction"]) raises TypeError for a
\* key that is not a field and for a field that has no key; the object
\* built keeps no trace of the order of the keys in the file.
TypeErrorRaised == [exists |-> FALSE, raised |-> "TypeError"]
from_json(json_str) ==
    IF {json_str.extraction_keys[i] : i \in DOMAIN json_str.extraction_keys}
          = {ExtractionInfoFields[i] : i \in DOMAIN ExtractionInfoFields}
    THEN [json_str EXCEPT !.extraction_keys = ExtractionInfoFields]
    ELSE TypeErrorRaised

\* save_document: the file is named by the record's year and id alone.  (The
\* ids here are word characters and hyphens, which safe_id leaves as is.)
save_document(doc) == <<doc.year, doc.id>>

get_pending_downloads == {d \in Docs : rows[d].download_status = "pending"}

get_pending_extractions ==
    {d \in Docs : rows[d].download_status = "downloaded"
                  /\ rows[d].extraction_status = "pending"}

\* ORDER BY year_tag DESC, id: the row a loop over `set` reaches first.
FirstOf(set) ==
    CHOOSE d \in set : \A e \in set :
        \/ rows[d].year_tag > rows[e].year_tag
        \/ rows[d].year_tag = rows[e].year_tag /\ d <= e

\* update_extraction_status(doc_id=doc_id, status="error")
mark_error_marksExtracted(r) == [r EXCEPT !.extraction_status = "extracted"]

mark_error(r) ==
    update_extraction_status(r, "error", NULL, NoScore, NoScore, NoPath, FALSE)

\* One iteration of the loop of extract_all.  killed: the process dies
\* between save_document and update_extraction_status.
extract_all(d, skip_olmocr, native, olm, rid, sec, killed) ==
    LET doc == process_document(rows[d], d, skip_olmocr, FALSE, native, olm, rid, sec)
    IN  /\ get_pending_extractions # {}
        /\ Crash(killed)
        /\ d = FirstOf(get_pending_extractions)
        /\ IF doc # NoRec
           THEN /\ recs' = [recs EXCEPT ![save_document(doc)] = doc]
                /\ rows' = IF killed THEN rows
                           ELSE [rows EXCEPT ![d] = update_extraction_status(
                                    @, "extracted", doc.method, doc.quality_score,
                                    doc.extraction_confidence, save_document(doc),
                                    doc.extraction_confidence < 50
                                        \/ ~doc.has_standard_format)]
           ELSE /\ ~killed
                /\ recs' = recs
                /\ rows' = [rows EXCEPT ![d] = mark_error(@)]
        /\ UNCHANGED <<pdfs, canary_report, validation_report, aux, locals>>

\* One iteration of the loop of extract_all in which an exception reaches
\* the except clause: raised in process_document or save_document before
\* the record file is written, or after it (after_save).
extract_all_except(d, skip_olmocr, native, olm, rid, sec, after_save) ==
    LET doc == process_document(rows[d], d, skip_olmocr, FALSE, native, olm, rid, sec)
    IN  /\ get_pending_extractions # {}
        /\ d = FirstOf(get_pending_extractions)
        /\ after_save => doc # NoRec
        /\ recs' = IF after_save THEN [recs EXCEPT ![save_document(doc)] = doc] ELSE recs
        /\ rows' = [rows EXCEPT ![d] = mark_error(@)]
        /\ UNCHANGED <<pdfs, canary_report, validation_report, crashes, aux, locals>>

\* The local binary of a downloaded row is lost (moved or deleted by hand):
\* what Extractor._get_pdf_path then finds missing.
remove_pdf(path) ==
    /\ pdfs[path] # NoPdf
    /\ pdfs' = [pdfs EXCEPT ![path] = NoPdf]
    /\ UNCHANGED <<rows, recs, canary_report, validation_report, crashes, aux, locals>>

\* ------------------------------------------------- LLM synthesis (Phase 3B)
get_documents_needing_llm ==
    {d \in Docs : rows[d].extraction_status = "extracted"
                  /\ rows[d].needs_llm_extraction = 1
                  /\ rows[d].llm_extracted_at = NULL}

update_llm_extraction_status_keepsNull(r, section_confidence) ==
    [r EXCEPT !.needs_llm_extraction = 0,
              !.section_confidence = section_confidence]

update_llm_extraction_status(r, section_confidence) ==
    [r EXCEPT !.llm_extracted_at = "CURRENT_TIMESTAMP",
              !.needs_llm_extraction = 0,
              !.section_confidence = section_confidence]

\* What the model can answer in one API call: JSON, JSON inside a markdown
\* fence (which _salvage_json recovers), text with no JSON object in it, or
\* an API error: "overloaded" is a RateLimitError or a 5xx APIStatusError,
\* "client_error" any other APIStatusError.
Responses == {"json", "fenced", "garbage", "overloaded", "client_error"}
LLM_ATTEMPTS == 3

\* The answers attempt by attempt; what follows the answer that ends the
\* call is never requested, and is written "json".
ResponseSeqs ==
    {<<"json", "json", "json">>, <<"fenced", "json", "json">>,
     <<"client_error", "json", "json">>, <<"garbage", "fenced", "json">>,
     <<"garbage", "garbage", "json">>, <<"garbage", "garbage", "garbage">>,
     <<"overloaded", "overloaded", "overloaded">>,
     <<"overloaded", "garbage", "garbage">>}
NoCall == [attempts |-> 0, ok |-> FALSE, parse_failures |-> 0, raised |-> "none"]

\* _call_llm: the loop `for attempt in range(3)`, here from `attempt` on
\* (1-based), after `parse_failures` unparseable responses.
RECURSIVE call_llm_from(_, _, _)
call_llm_from(responses, attempt, parse_failures) ==
    IF attempt > LLM_ATTEMPTS
    THEN [attempts |-> LLM_ATTEMPTS, ok |-> FALSE, parse_failures |-> parse_failures,
          raised |-> "All retries exhausted"]
    ELSE LET resp == responses[attempt]
         IN  IF resp \in {"json", "fenced"}
             THEN [attempts |-> attempt, ok |-> TRUE, parse_failures |-> parse_failures,
                   raised |-> "none"]
             ELSE IF resp = "garbage"
             THEN IF attempt - 1 < 2
                  THEN call_llm_from(responses, attempt + 1, parse_failures + 1)
                  ELSE [attempts |-> attempt, ok |-> FALSE,
                        parse_failures |-> parse_failures + 1, raised |-> "ValueError"]
             ELSE IF resp = "client_error"
             THEN [attempts |-> attempt, ok |-> FALSE, parse_failures |-> parse_failures,
                   raised |-> "APIStatusError"]
             ELSE call_llm_from(responses, attempt + 1, parse_failures)

call_llm(responses) == call_llm_from(responses, 1, 0)

\* The parsed answer: its question and conclusion may be empty.
LlmConfidence == 80
LlmResult(question, conclusion) ==
    [question |-> question, conclusion |-> conclusion,
     extraction_confidence |-> LlmConfidence, notes |-> "llm notes"]
LlmTexts == {"", "llm text\f"}
LlmResults == {LlmResult(q, "llm text\f") : q \in LlmTexts}

\* clean_section_content on the texts above: the page-break artifact goes.
clean_section_content(content) ==
    IF content = "llm text\f" THEN "llm text" ELSE content

\* _update_document: a section the regex found is kept; the sections are
\* marked as synthesised by the LLM.
update_document_overwrites(doc, llm_result) ==
    [doc EXCEPT !.sections_method = "llm",
                !.extraction_confidence = llm_result.extraction_confidence,
                !.question = clean_section_content(llm_result.question),
                !.conclusion = clean_section_content(llm_result.conclusion),
                !.parsing_notes = IF llm_result.notes # ""
                                  THEN Append(@, <<"LLM", llm_result.notes>>) ELSE @]

update_document(doc, llm_result) ==
    [doc EXCEPT !.sections_method = "llm",
                !.extraction_confidence = llm_result.extraction_confidence,
                !.question = IF @ = "" /\ llm_result.question # ""
                             THEN clean_section_content(llm_result.question) ELSE @,
                !.conclusion = IF @ = "" /\ llm_result.conclusion # ""
                               THEN clean_section_content(llm_result.conclusion) ELSE @,
                !.parsing_notes = IF llm_result.notes # ""
                                  THEN Append(@, <<"LLM", llm_result.notes>>) ELSE @]

\* LLMExtractor.process_document for one flagged row whose record file
\* loads (from_json does not raise).  responses: what the API answers, attempt by attempt; db_error:
\* update_llm_extraction_status raises (or the process dies) after the
\* record file has been rewritten.
llm_process_document(d, responses, llm_result, db_error) ==
    LET r == rows[d]
        result == call_llm(responses)
        doc == update_document(from_json(recs[r.json_path]), llm_result)
    IN  /\ d \in get_documents_needing_llm
        /\ r.json_path # NoPath
        /\ recs[r.json_path] # NoRec
        /\ from_json(recs[r.json_path]) # TypeErrorRaised
        /\ llm_call' = result
        /\ IF result.ok
           THEN /\ Crash(db_error)
                /\ recs' = [recs EXCEPT ![r.json_path] = to_json(doc)]
                /\ rows' = IF db_error THEN rows
                           ELSE [rows EXCEPT ![d] = update_llm_extraction_status(
                                    @, doc.extraction_confidence)]
           ELSE /\ ~db_error
                /\ UNCHANGED <<rows, recs, crashes>>
        /\ UNCHANGED <<pdfs, canary_report, validation_report, aux, page_loop, call>>

\* ------------------------------------------------- re-extraction (repair)
\* reocr_corpus.discover_candidates: extracted rows whose record file exists
\* and whose text rescored is below the threshold (--threshold, default 0.80).
REOCR_THRESHOLD == 80
discover_candidates(skip_already_ocr) ==
    {d \in Docs :
        /\ rows[d].extraction_status = "extracted"
        /\ rows[d].json_path # NoPath
        /\ recs[rows[d].json_path] # NoRec
        /\ recs[rows[d].json_path].quality_score < REOCR_THRESHOLD
        /\ ~(skip_already_ocr /\ rows[d].extraction_method = "olmocr")}

\* The row is committed as pending before the extractor is called.
reset_to_pending(r) == [r EXCEPT !.extraction_status = "pending"]
restore_extracted(r) == [r EXCEPT !.extraction_status = "extracted"]

\* Where a re-extraction run can be killed: not at all, inside
\* process_document (after the reset), or between save_document and the
\* row update.
KillPoints == {"none", "in_process", "after_save"}

\* One iteration of the loop of reocr_corpus.reextract_candidates.
reextract_candidates(d, skip_already_ocr, native, olm, rid, sec, kill) ==
    LET r == rows[d]
        old_v3 == recs[r.json_path].quality_score
        doc == process_document(r, d, FALSE, TRUE, native, olm, rid, sec)
        improved == doc # NoRec /\ doc.quality_score > old_v3
    IN  /\ d \in discover_candidates(skip_already_ocr)
        /\ Crash(kill # "none")
        /\ kill = "after_save" => improved
        /\ recs' = IF improved /\ kill # "in_process"
                   THEN [recs EXCEPT ![save_document(doc)] = doc] ELSE recs
        /\ rows' = [rows EXCEPT ![d] =
                        IF kill # "none" THEN reset_to_pending(r)
                        ELSE IF improved
                        THEN update_extraction_status(
                                reset_to_pending(r), "extracted", doc.method,
                                doc.quality_score, doc.extraction_confidence,
                                save_document(doc),
                                doc.extraction_confidence < 50 \/ ~doc.has_standard_format)
                        ELSE restore_extracted(reset_to_pending(r))]
        /\ UNCHANGED <<pdfs, canary_report, validation_report, aux, locals>>

\* qa_corpus_validate --json, check 4: every record file with fewer than
\* MIN_WORDS_PER_PAGE words per page (and some words) is listed with its
\* record id and method.
MIN_WORDS_PER_PAGE == 50
low_density ==
    {[doc_id |-> recs[p].id, method |-> recs[p].method] :
        p \in {q \in RecPaths : recs[q] # NoRec
                               /\ recs[q].words_per_page < MIN_WORDS_PER_PAGE
                               /\ recs[q].words_per_page > 0}}

qa_corpus_validate ==
    /\ validation_report' = low_density
    /\ validation_report' # validation_report
    /\ UNCHANGED <<rows, pdfs, recs, canary_report, crashes, aux, locals>>

\* fix_low_density: the row for a listed record id is the first row whose
\* letter_id equals it, else the first row whose json_path ends in its file
\* name.
Lowest(set) == CHOOSE d \in set : \A e \in set : d <= e
ByLetterId(id) == {d \in Docs : rows[d].letter_id = id}
ByJsonPath(id) == {d \in Docs : rows[d].json_path # NoPath /\ rows[d].json_path[2] = id}
find_row(id) ==
    IF ByLetterId(id) # {} THEN Lowest(ByLetterId(id))
    ELSE IF ByJsonPath(id) # {} THEN Lowest(ByJsonPath(id))
    ELSE 0

\* One iteration of the loop of fix_low_density over the listed native
\* records whose file still exists in some year directory.
fix_low_density(entry, native, olm, rid, sec, kill) ==
    LET d == find_row(entry.doc_id)
        r == rows[d]
        doc == process_document(r, d, FALSE, FALSE, native, olm, rid, sec)
    IN  /\ entry \in validation_report
        /\ entry.method = "native"
        /\ \E y \in Years : recs[<<y, entry.doc_id>>] # NoRec
        /\ d # 0
        /\ Crash(kill # "none")
        /\ kill = "after_save" => doc # NoRec
        /\ recs' = IF doc # NoRec /\ kill # "in_process"
                   THEN [recs EXCEPT ![save_document(doc)] = doc] ELSE recs
        /\ rows' = [rows EXCEPT ![d] =
                        IF kill # "none" THEN reset_to_pending(r)
                        ELSE IF doc # NoRec
                        THEN update_extraction_status(
                                reset_to_pending(r), "extracted", doc.method,
                                doc.quality_score, doc.extraction_confidence,
                                save_document(doc),
                                doc.extraction_confidence < 50 \/ ~doc.has_standard_format)
                        ELSE restore_extracted(reset_to_pending(r))]
        /\ UNCHANGED <<pdfs, canary_report, validation_report, aux, locals>>

\* ---------------------------------------------------------------- Verifier
backfill_row(r) ==
    IF /\ r.extraction_status = "extracted"
       /\ r.extraction_method \in {"native", "native+olmocr"}
       /\ r.fidelity_score = NoScore
    THEN update_fidelity(r, 100, "native_trusted", "verified")
    ELSE r

backfill_native_fidelity ==
    /\ rows' = [d \in Docs |-> backfill_row(rows[d])]
    /\ rows' # rows
    /\ UNCHANGED <<pdfs, recs, canary_report, validation_report, crashes, aux, locals>>

\* Phase 1, the classical-OCR canary.  risk tier of one comparison:
classify_risk(is_description_mode, canary_score) ==
    IF is_description_mode THEN "critical"
    ELSE IF canary_score < 30 THEN "critical"
    ELSE IF canary_score < 50 THEN "high"
    ELSE IF canary_score < 70 THEN "medium"
    ELSE "low"

\* The vision-OCR text of a record: its paragraphs (the pieces between blank
\* lines), each with its length in characters and whether it opens with a
\* description-mode marker such as "The image is".
DESCRIPTION_WINDOW == 500
MarkerLen == 12
ParagraphChars == {100, 600}
Paragraph(chars, marker) == [chars |-> chars, marker |-> marker]
Paragraphs == {Paragraph(n, m) : n \in ParagraphChars, m \in BOOLEAN}
OlmocrTexts == {<<p>> : p \in Paragraphs} \cup {<<p, q>> : p \in Paragraphs, q \in Paragraphs}

\* Where paragraph i starts in the text joined by blank lines.
RECURSIVE Offset(_, _)
Offset(text, i) ==
    IF i = 1 THEN 0 ELSE Offset(text, i - 1) + text[i - 1].chars + 2

\* detect_description_mode: a marker lies wholly in the first 500 characters.
detect_description_mode(text) ==
    \E i \in 1..Len(text) :
        text[i].marker /\ Offset(text, i) + MarkerLen <= DESCRIPTION_WINDOW

\* The chunks of olmocr_text.split("\n\n") in which a marker is detected.
description_pages(text) ==
    {i - 1 : i \in {j \in 1..Len(text) : detect_description_mode(<<text[j]>>)}}

\* What process_single_doc returns: a scored comparison, or an error result.
CanaryResult(score, text) ==
    [present |-> TRUE, canary_score |-> score,
     is_description_mode |-> detect_description_mode(text),
     description_pages |-> description_pages(text),
     risk_tier |-> classify_risk(detect_description_mode(text), score), error |-> FALSE]
CanaryError ==
    [present |-> TRUE, canary_score |-> 0, is_description_mode |-> FALSE,
     description_pages |-> {}, risk_tier |-> "high", error |-> TRUE]
CanaryScores == {20, 40, 60, 80}
PlainText == <<Paragraph(600, FALSE)>>
DescribedText == <<Paragraph(600, TRUE)>>
CanaryResults ==
    {CanaryResult(sc, PlainText) : sc \in CanaryScores}
        \cup {CanaryResult(20, DescribedText), CanaryError}

get_olmocr_documents ==
    {d \in Docs : rows[d].extraction_status = "extracted"
                  /\ rows[d].extraction_method = "olmocr"
                  /\ rows[d].json_path # NoPath}

\* The first `limit` rows of `set` in id order (all of them for limit 0).
RECURSIVE Take(_, _)
Take(set, limit) ==
    IF limit = 0 \/ set = {} THEN set
    ELSE IF limit = 1 THEN {CHOOSE d \in set : \A e \in set : d <= e}
    ELSE LET first == CHOOSE d \in set : \A e \in set : d <= e
         IN  {first} \cup Take(set \ {first}, limit - 1)

\* The work items of one run: the olmocr rows not yet in the report being
\* resumed whose binary resolves, cut to --limit.
work_items(resume, limit) ==
    Take({d \in get_olmocr_documents :
            ~(resume /\ canary_report[d].present)
            /\ pdfs[get_pdf_path(rows[d])] # NoPdf}, limit)

\* One run of run_tesseract_canary.py: scan, save the report, then with
\* --update-db write every non-error result of the report to the table.
canary_main(resume, limit, update_db, outcome) ==
    LET existing == IF resume THEN canary_report ELSE [d \in Docs |-> NoEntry]
        results == [d \in Docs |-> IF d \in work_items(resume, limit)
                                   THEN outcome[d] ELSE existing[d]]
    IN  /\ get_olmocr_documents # {}
        /\ canary_report' = results
        /\ rows' = IF update_db
                   THEN [d \in Docs |->
                            IF results[d].present /\ ~results[d].error
                            THEN update_fidelity(rows[d], results[d].canary_score,
                                                 "tesseract_canary", results[d].risk_tier)
                            ELSE rows[d]]
                   ELSE rows
        /\ UNCHANGED <<pdfs, recs, validation_report, crashes, aux, locals>>

\* resolve_pdf_path of the Verifier scripts: the local binary, if present.
resolve_pdf_path(r) == pdfs[get_pdf_path(r)] # NoPdf

\* What verify_with_haiku returns when the API answers: unreadable, or a
\* similarity; hallucinated means similarity below 0.40.
HAIKU_HALLUCINATED_BELOW == 40
HaikuResult(similarity, unreadable) ==
    [similarity |-> similarity, is_unreadable |-> unreadable,
     is_hallucinated |-> ~unreadable /\ similarity < HAIKU_HALLUCINATED_BELOW,
     error |-> FALSE]
\* All retries exhausted.
HaikuError ==
    [similarity |-> 0, is_unreadable |-> FALSE, is_hallucinated |-> FALSE, error |-> TRUE]
HaikuResults == {HaikuResult(0, TRUE), HaikuResult(20, FALSE),
                 HaikuResult(50, FALSE), HaikuResult(80, FALSE)}

\* What extract_with_tesseract + compute_quality_score return.
TessResult(score, words) == [final_score |-> score, words |-> words]
TessResults == {TessResult(40, 200), TessResult(20, 10)}
tesseract_usable(tess) == tess.final_score > 30 /\ tess.words > 20

\* The record file rewritten in place with the classical-OCR text.
tesseract_rewrite(rec, tess) ==
    [rec EXCEPT !.method = "tesseract_fallback", !.quality_score = tess.final_score]

get_high_risk_docs ==
    {d \in Docs : canary_report[d].present /\ canary_report[d].risk_tier = "high"
                  /\ ~canary_report[d].error}

\* The entry verify_high_risk appends to its results for a document.
result_entry(d, haiku) ==
    [doc_id |-> d, similarity |-> haiku.similarity,
     is_hallucinated |-> haiku.is_hallucinated, is_unreadable |-> haiku.is_unreadable,
     canary_score |-> canary_report[d].canary_score]

\* [r["doc_id"] for r in results if the fixed marker is in str(r)]: the
\* marker is part of the printed status, which no field of an entry holds.
fixed_ids(results) == {e.doc_id : e \in {x \in results : "status" \in DOMAIN x}}

\* One iteration of the loop of verify_high_risk.main (Phase 2).  killed:
\* the process dies between rewriting the record file and
\* update_extraction_status.
verify_high_risk(d, update_db, haiku, tess, killed) ==
    LET r == rows[d]
        repair == /\ haiku.is_hallucinated
                  /\ tesseract_usable(tess)
                  /\ recs[r.json_path] # NoRec
        after_repair ==
            IF repair
            THEN LET r1 == update_extraction_status(r, "extracted", "tesseract_fallback",
                                tess.final_score, NoScore, NoPath, FALSE)
                 IN  IF update_db
                     THEN update_fidelity(r1, 90, "haiku_verified_tesseract", "low")
                     ELSE r1
            ELSE r
        after_doc ==
            IF haiku.is_unreadable
            THEN IF update_db THEN update_fidelity(r, 50, "haiku_unreadable", "medium") ELSE r
            ELSE IF haiku.is_hallucinated
            THEN IF update_db /\ d \notin fixed_ids({result_entry(d, haiku)})
                 THEN update_fidelity(after_repair, haiku.similarity, "haiku_verified", "high")
                 ELSE after_repair
            ELSE IF update_db
                 THEN update_fidelity(r, haiku.similarity, "haiku_verified", "verified")
                 ELSE r
    IN  /\ d \in get_high_risk_docs
        /\ resolve_pdf_path(r)
        /\ r.json_path # NoPath
        /\ Crash(killed)
        /\ killed => repair
        /\ recs' = IF repair THEN [recs EXCEPT ![r.json_path] = tesseract_rewrite(@, tess)]
                   ELSE recs
        /\ rows' = IF killed THEN rows ELSE [rows EXCEPT ![d] = after_doc]
        /\ UNCHANGED <<pdfs, canary_report, validation_report, aux, locals>>

\* Phase 3, sample_medium_risk.main: one whole run with --update-db.
MIN_SAMPLE == 20
SAMPLE_PCT == 10
PHASE3_ACCEPT_BELOW == 5
Max(a, b) == IF a > b THEN a ELSE b
Min(a, b) == IF a < b THEN a ELSE b
sample_size(n) == Min(Max(MIN_SAMPLE, (n * SAMPLE_PCT) \div 100), n)

get_medium_risk_docs ==
    {d \in Docs : canary_report[d].present /\ canary_report[d].risk_tier = "medium"
                  /\ ~canary_report[d].error}

\* outcome[d] is what verify_with_haiku returns for d; a row whose binary or
\* json_path is missing is skipped as an error.
sample_medium_risk(sample, outcome) ==
    LET medium == get_medium_risk_docs
        results == {d \in sample : ~outcome[d].error
                                   /\ resolve_pdf_path(rows[d])
                                   /\ rows[d].json_path # NoPath}
        hallucinated == Cardinality({d \in results : outcome[d].is_hallucinated})
        verified_ok == Cardinality({d \in results : ~outcome[d].is_hallucinated
                                                    /\ ~outcome[d].is_unreadable})
        checked == verified_ok + hallucinated
        accept == checked = 0 \/ hallucinated * 100 < PHASE3_ACCEPT_BELOW * checked
    IN  /\ medium # {}
        /\ sample \subseteq medium
        /\ Cardinality(sample) = sample_size(Cardinality(medium))
        /\ rows' = [d \in Docs |->
                        IF accept
                        THEN IF d \in medium
                             THEN update_fidelity(rows[d], canary_report[d].canary_score,
                                                  "tesseract_canary", "low")
                             ELSE rows[d]
                        ELSE IF d \in results /\ ~outcome[d].is_unreadable
                             THEN update_fidelity(rows[d], outcome[d].similarity,
                                    "haiku_verified",
                                    IF outcome[d].is_hallucinated THEN "high" ELSE "verified")
                             ELSE rows[d]]
        /\ UNCHANGED <<pdfs, recs, canary_report, validation_report, crashes, aux, locals>>

\* fix_critical_fidelity.main, one iteration over the critical entries of
\* the canary report.
get_critical_docs ==
    {d \in Docs : canary_report[d].present /\ canary_report[d].risk_tier = "critical"
                  /\ ~canary_report[d].error}

fix_critical_fidelity(d, tesseract_only, native, olm, rid, sec, has_desc, tess, kill) ==
    LET r == rows[d]
        old_canary == canary_report[d].canary_score
        doc == process_document(r, d, FALSE, TRUE, native, olm, rid, sec)
        retried == ~tesseract_only
        fixed1 == retried /\ doc # NoRec /\ ~has_desc /\ doc.quality_score > 50
        r1 == IF fixed1
              THEN update_fidelity(
                      update_extraction_status(
                          reset_to_pending(r), "extracted", doc.method, doc.quality_score,
                          doc.extraction_confidence, save_document(doc),
                          doc.extraction_confidence < 50 \/ ~doc.has_standard_format),
                      80, "olmocr_retry", "medium")
              ELSE IF retried THEN restore_extracted(reset_to_pending(r)) ELSE r
        fixed2 == /\ ~fixed1
                  /\ tesseract_usable(tess)
                  /\ r.json_path # NoPath
                  /\ recs[r.json_path] # NoRec
        r2 == IF fixed1 THEN r1
              ELSE IF fixed2
              THEN update_fidelity(
                      update_extraction_status(r1, "extracted", "tesseract_fallback",
                          tess.final_score, NoScore, NoPath, FALSE),
                      90, "tesseract_fallback", "low")
              ELSE update_fidelity(r1, old_canary, "tesseract_canary", "critical")
    IN  /\ d \in get_critical_docs
        /\ resolve_pdf_path(r)
        /\ Crash(kill # "none")
        /\ kill # "none" => retried
        /\ kill = "after_save" => fixed1
        /\ recs' = IF kill = "in_process" THEN recs
                   ELSE IF fixed1 THEN [recs EXCEPT ![save_document(doc)] = doc]
                   ELSE IF fixed2 /\ kill = "none"
                   THEN [recs EXCEPT ![r.json_path] = tesseract_rewrite(@, tess)]
                   ELSE recs
        /\ rows' = [rows EXCEPT ![d] = IF kill # "none" THEN reset_to_pending(r) ELSE r2]
        /\ UNCHANGED <<pdfs, canary_report, validation_report, aux, locals>>

\* Phase 4, haiku_reocr.process_document with the table update enabled, for
\* a flagged row or the row named by --doc-id.  killed: between rewriting
\* the record file and update_extraction_status.
HAIKU_VISION_QUALITY == 90
get_flagged_docs == {d \in Docs : rows[d].fidelity_risk \in {"critical", "high", "medium"}}

\* doc_json["extraction"]["haiku_cost"] = ... adds the key when it is new.
haiku_rewrite(rec) ==
    [rec EXCEPT !.method = "haiku_vision", !.quality_score = HAIKU_VISION_QUALITY,
                !.extraction_keys =
                    IF \E i \in DOMAIN @ : @[i] = "haiku_cost" THEN @
                    ELSE Append(@, "haiku_cost")]

haiku_reocr(d, by_doc_id, killed) ==
    LET r == rows[d]
    IN  /\ by_doc_id \/ d \in get_flagged_docs
        /\ resolve_pdf_path(r)
        /\ r.json_path # NoPath
        /\ recs[r.json_path] # NoRec
        /\ Crash(killed)
        /\ recs' = [recs EXCEPT ![r.json_path] = haiku_rewrite(@)]
        /\ rows' = IF killed THEN rows
                   ELSE [rows EXCEPT ![d] = update_fidelity(
                            update_extraction_status(r, "extracted", "haiku_vision",
                                HAIKU_VISION_QUALITY, NoScore, NoPath, FALSE),
                            95, "haiku_vision", "verified")]
        /\ UNCHANGED <<pdfs, canary_report, validation_report, aux, locals>>

\* ------------------------------------------- Phase 1, checkpoints and resume
\* A checkpoint is saved every CheckpointEvery results (100 in the script,
\* 200 with several workers).
CheckpointEvery == 1
NoReport == [state |-> "absent"]
TornReport == [state |-> "torn"]
NotScanning == [running |-> FALSE, done |-> FALSE, work_items |-> <<>>, results |-> <<>>,
                processed |-> 0, completed_ids |-> {}]

\* The rows of `set` as a list in id order.
RECURSIVE InIdOrder(_)
InIdOrder(set) ==
    IF set = {} THEN <<>>
    ELSE LET first == CHOOSE d \in set : \A e \in set : d <= e
         IN  <<first>> \o InIdOrder(set \ {first})

\* completed_ids = {r["doc_id"] for r in existing_results}
completed_ids_ignoresCheckpoint(existing_results) == {}

completed_ids(existing_results) ==
    {existing_results[i].doc_id : i \in 1..Len(existing_results)}

\* The report read by document: the last result listed for each one.
by_doc(results) ==
    [d \in Docs |->
        IF \E i \in 1..Len(results) : results[i].doc_id = d
        THEN results[CHOOSE i \in 1..Len(results) :
                        /\ results[i].doc_id = d
                        /\ \A j \in 1..Len(results) : results[j].doc_id = d => j <= i].result
        ELSE NoEntry]

\* _save_report: open(REPORT_PATH, "w") truncates, json.dump writes.
save_report(results, killed_in_write) ==
    IF killed_in_write THEN TornReport ELSE [state |-> "ok", results |-> results]

\* main up to the loop: load the report when resuming, build the work items.
\* json.load of a partial report raises, and the run ends there.
scan_start(resume, limit) ==
    LET existing_results == IF resume /\ report_file.state = "ok"
                            THEN report_file.results ELSE <<>>
        done_ids == completed_ids(existing_results)
        todo == Take({d \in get_olmocr_documents :
                        d \notin done_ids /\ pdfs[get_pdf_path(rows[d])] # NoPdf}, limit)
    IN  /\ ~scan.running
        /\ get_olmocr_documents # {}
        /\ ~(resume /\ report_file.state = "torn")
        /\ scan' = [running |-> TRUE, done |-> FALSE, work_items |-> InIdOrder(todo),
                    results |-> existing_results, processed |-> 0,
                    completed_ids |-> done_ids]
        /\ UNCHANGED <<pipeline, run, checkpoint, crawl, crawled, report_file, locals>>

ScanKills == {"none", "in_save", "after"}

\* One iteration of the serial loop: scan the next work item, append its
\* result, save a checkpoint when one is due.
scan_step(outcome, kill) ==
    LET item == scan.work_items[scan.processed + 1]
        results == Append(scan.results, [doc_id |-> item, result |-> outcome])
        processed == scan.processed + 1
        due == processed % CheckpointEvery = 0
    IN  /\ scan.running
        /\ scan.processed < Len(scan.work_items)
        /\ Crash(kill # "none")
        /\ kill = "in_save" => due
        /\ report_file' = IF due THEN save_report(results, kill = "in_save") ELSE report_file
        /\ canary_report' = IF due /\ kill # "in_save" THEN by_doc(results) ELSE canary_report
        /\ scan' = IF kill # "none" THEN NotScanning
                   ELSE [scan EXCEPT !.results = results, !.processed = processed]
        /\ UNCHANGED <<rows, pdfs, recs, validation_report, run, checkpoint, crawl, crawled, locals>>

\* After the loop: the final save, then with --update-db every non-error
\* result of the report is written to the table.
scan_finish(update_db, kill) ==
    /\ scan.running
    /\ scan.processed = Len(scan.work_items)
    /\ Crash(kill # "none")
    /\ report_file' = save_report(scan.results, kill = "in_save")
    /\ canary_report' = IF kill = "in_save" THEN canary_report ELSE by_doc(scan.results)
    /\ scan' = IF kill = "in_save" THEN NotScanning
               ELSE [scan EXCEPT !.running = FALSE, !.done = TRUE]
    /\ rows' = IF update_db /\ kill = "none"
               THEN [d \in Docs |->
                       LET e == by_doc(scan.results)[d]
                       IN  IF e.present /\ ~e.error
                           THEN update_fidelity(rows[d], e.canary_score,
                                                "tesseract_canary", e.risk_tier)
                           ELSE rows[d]]
               ELSE rows
    /\ UNCHANGED <<pdfs, recs, validation_report, run, checkpoint, crawl, crawled, locals>>

\* ------------------------------------------------------------------ Crawler
\* The search site, cut to MaxYears years of at most MaxPages result pages.
MaxYears == 3
MaxPages == 2
START_YEAR == 1975
END_YEAR == START_YEAR + MaxYears - 1
CrawlYears == START_YEAR..END_YEAR

\* get_page_count of a year's first result page.
get_page_count(year) == ((year - START_YEAR) % MaxPages) + 1

NoCheckpoint == [state |-> "absent"]
TornCheckpoint == [state |-> "torn"]
NotCrawling == [running |-> FALSE, year |-> START_YEAR, page |-> 1,
                checkpoint_year |-> 0, skipped |-> {}, single |-> FALSE]

\* load_checkpoint: the last completed year, 0 (None) when the file is
\* missing or cannot be parsed.
load_checkpoint ==
    IF checkpoint.state = "ok" THEN checkpoint.last_completed_year ELSE 0

\* save_checkpoint: open(CHECKPOINT_PATH, "w") truncates the file, json.dump
\* then writes it; a process killed in between leaves a partial file.
save_checkpoint(year, page, killed_in_write) ==
    IF killed_in_write THEN TornCheckpoint
    ELSE [state |-> "ok", last_completed_year |-> year, last_completed_page |-> page]

\* crawl_all(start_year=None) up to its first crawl_year.
crawl_all ==
    LET checkpoint_year == load_checkpoint
        start_year == IF checkpoint_year # 0 THEN checkpoint_year + 1 ELSE START_YEAR
    IN  /\ ~crawl.running
        /\ crawl' = [running |-> start_year <= END_YEAR, year |-> start_year, page |-> 1,
                     checkpoint_year |-> checkpoint_year, skipped |-> {},
                     single |-> FALSE]
        /\ UNCHANGED <<pipeline, run, checkpoint, crawled, report_file, scan, locals>>

\* main with --year: crawl_year(args.year) alone, from page 1.
main_year(year) ==
    /\ ~crawl.running
    /\ crawl' = [running |-> TRUE, year |-> year, page |-> 1,
                 checkpoint_year |-> 0, skipped |-> {}, single |-> TRUE]
    /\ UNCHANGED <<pipeline, run, checkpoint, crawled, report_file, scan, locals>>

\* crawl_all moves on to the next year (or returns after END_YEAR); a
\* single-year run returns.
next_year(c) ==
    [c EXCEPT !.year = @ + 1, !.page = 1, !.running = c.year < END_YEAR /\ ~c.single]

\* crawl_all has printed "Crawl complete!".
crawl_complete == ~crawl.running /\ ~crawl.single /\ crawl.year > END_YEAR

CrawlKills == {"none", "in_save", "after_save"}

\* crawl_year, one result page: fetch it, insert its rows, save the
\* checkpoint, go to the next page or year.  fetch_ok: fetch_page returned
\* the HTML; kill: where the process dies, if it does.
crawl_year(fetch_ok, kill) ==
    LET year == crawl.year
        page == crawl.page
        total_pages == get_page_count(year)
        last == page >= total_pages
    IN  /\ crawl.running
        /\ Crash(kill # "none")
        /\ kill # "none" => fetch_ok
        /\ IF ~fetch_ok
           THEN /\ crawl' = IF page = 1
                            THEN [next_year(crawl) EXCEPT !.skipped = @ \cup {year}]
                            ELSE IF page + 1 > total_pages THEN next_year(crawl)
                            ELSE [crawl EXCEPT !.page = @ + 1]
                /\ UNCHANGED <<checkpoint, crawled, locals>>
           ELSE /\ crawled' = crawled \cup {<<year, page>>}
                /\ checkpoint' = save_checkpoint(year, page, kill = "in_save")
                /\ crawl' = IF kill # "none" THEN [crawl EXCEPT !.running = FALSE]
                            ELSE IF last THEN next_year(crawl)
                            ELSE [crawl EXCEPT !.page = @ + 1]
        /\ UNCHANGED <<rows, pdfs, recs, canary_report, validation_report, run, report_file, scan, locals>>

\* fetch_page: `for attempt in range(MAX_RETRIES)`; fetches[i] tells whether
\* the i-th request succeeds.  None (html FALSE) once every attempt failed.
FetchOutcomes == [1..MAX_RETRIES -> BOOLEAN]

RECURSIVE fetch_page_from(_, _)
fetch_page_from(fetches, attempt) ==
    IF attempt > MAX_RETRIES THEN [html |-> FALSE, attempts |-> MAX_RETRIES]
    ELSE IF fetches[attempt] THEN [html |-> TRUE, attempts |-> attempt]
    ELSE fetch_page_from(fetches, attempt + 1)

fetch_page(fetches) == fetch_page_from(fetches, 1)

\* get_page_count and get_result_count of a result page: 0 stands for None
\* (the "Page n of m" or the result count is not in the HTML).
PageCounts == 0..MaxPages
ResultCounts == {0, 1}
\* parse_results of one page: how many results it yields.
PageResults == {0, 1}

\* `total_pages or 1`
or_1(total_pages) == IF total_pages = 0 THEN 1 ELSE total_pages

\* `page += 1` on the way to the next iteration of the page loop.
next_page_stays(loop) == loop

next_page(loop) == [loop EXCEPT !.page = @ + 1]

end_loop(loop) == [loop EXCEPT !.running = FALSE]

\* crawl_year(year, start_page) up to its page loop: the first page is
\* fetched, its counts are read.
crawl_year_begin(year, start_page, fetches, total_results, total_pages) ==
    LET first == fetch_page(fetches)
    IN  /\ ~page_loop.running
        /\ page_loop' = [running |-> first.html /\ total_results # 0,
                         year |-> year, start_page |-> start_page, page |-> start_page,
                         total_pages |-> IF first.html THEN total_pages ELSE 0,
                         attempts |-> first.attempts, documents_found |-> 0]
        /\ UNCHANGED <<pipeline, aux, llm_call, call>>

\* One iteration of `while True` in crawl_year.  results: what parse_results
\* finds on the page.
crawl_year_loop(fetches, results) ==
    LET loop == page_loop
        fetched == IF loop.page > loop.start_page THEN fetch_page(fetches)
                   ELSE [html |-> TRUE, attempts |-> loop.attempts]
        at == [loop EXCEPT !.attempts = fetched.attempts]
    IN  /\ loop.running
        /\ IF ~fetched.html
           THEN /\ page_loop' = IF loop.page + 1 > or_1(loop.total_pages)
                                THEN end_loop(next_page(at)) ELSE next_page(at)
                /\ UNCHANGED <<checkpoint, crawled>>
           ELSE IF results = 0
           THEN /\ page_loop' = IF loop.page >= or_1(loop.total_pages)
                                THEN end_loop(at) ELSE next_page(at)
                /\ UNCHANGED <<checkpoint, crawled>>
           ELSE /\ crawled' = crawled \cup {<<loop.year, loop.page>>}
                /\ checkpoint' = save_checkpoint(loop.year, loop.page, FALSE)
                /\ page_loop' =
                      LET found == [at EXCEPT !.documents_found = @ + results]
                      IN  IF loop.page >= or_1(loop.total_pages)
                          THEN end_loop(found) ELSE next_page(found)
        /\ UNCHANGED <<pipeline, run, crawl, report_file, scan, llm_call, call>>

\* ----------------------------------------------------------- citation graph
\* A letter id as written: its prefix (A, I, M or none), its two-digit year,
\* its number, and the form it is written in: "P-yy-nnn" (A-82-060),
\* "yy-nnn" (82-060), "yynnn" (82060), "yyPnnn" (82A060), "Pyynnn" (A82060).
LetterId(prefix, yy, nnn, form) == [prefix |-> prefix, yy |-> yy, nnn |-> nnn, form |-> form]
NoId == [form |-> "none"]
Prefixes == {"A", "I", "M"}

\* build_id_lookup: the variants registered for one known id.
id_variants(kid) ==
    IF kid.form = "P-yy-nnn"
    THEN {LetterId("", kid.yy, kid.nnn, "yy-nnn"), LetterId("", kid.yy, kid.nnn, "yynnn"),
          LetterId(kid.prefix, kid.yy, kid.nnn, "Pyynnn")}
    ELSE IF kid.form = "yy-nnn"
    THEN {LetterId(P, kid.yy, kid.nnn, "P-yy-nnn") : P \in Prefixes}
            \cup {LetterId("", kid.yy, kid.nnn, "yynnn")}
    ELSE IF kid.form = "yynnn"
    THEN {LetterId(P, kid.yy, kid.nnn, "P-yy-nnn") : P \in Prefixes}
            \cup {LetterId("", kid.yy, kid.nnn, "yy-nnn")}
    ELSE IF kid.form = "yyPnnn"
    THEN {LetterId(kid.prefix, kid.yy, kid.nnn, "P-yy-nnn"),
          LetterId("", kid.yy, kid.nnn, "yy-nnn")}
    ELSE {}

\* The record files of the corpus the pass can find: two letters, one of
\* them extracted under two year directories.
GraphDocIds == {LetterId("A", 82, 60, "P-yy-nnn"), LetterId("I", 82, 60, "P-yy-nnn")}
GraphPaths ==
    {<<2021, LetterId("A", 82, 60, "P-yy-nnn")>>, <<2022, LetterId("A", 82, 60, "P-yy-nnn")>>,
     <<2022, LetterId("I", 82, 60, "P-yy-nnn")>>}
\* What a prior_opinions list can hold: a variant of both letters, one of
\* them as stored, and a letter the corpus does not have.
CitedIds ==
    {LetterId("", 82, 60, "yy-nnn"), LetterId("I", 82, 60, "P-yy-nnn"),
     LetterId("A", 82, 99, "P-yy-nnn")}
NoFile == [exists |-> FALSE]
GraphFile(id, prior_opinions, cited_by) ==
    [exists |-> TRUE, id |-> id, prior_opinions |-> prior_opinions, cited_by |-> cited_by]

\* build_id_lookup: known ids map to themselves; another variant maps to the
\* known id that registered it first, which depends on the iteration order
\* of the set known_ids.
build_id_lookup(known_ids) ==
    {f \in [CitedIds \cup known_ids -> known_ids \cup {NoId}] :
        \A v \in DOMAIN f :
            LET registering == {kid \in known_ids : v \in id_variants(kid)}
            IN  IF v \in known_ids THEN f[v] = v
                ELSE IF registering # {} THEN f[v] \in registering
                ELSE f[v] = NoId}

\* main, phase 1: documents[doc_id] = (path, doc) over the sorted paths; a
\* later file with the same id replaces an earlier one.
documents(files) ==
    LET found == {p \in GraphPaths : files[p].exists}
        ids == {files[p].id : p \in found}
    IN  [id \in ids |->
            CHOOSE p \in found :
                /\ files[p].id = id
                /\ \A q \in found : files[q].id = id => q[1] <= p[1]]

\* main, phases 3 to 5.  variant_to_canonical: the lookup built in phase 2.
citation_graph(files, variant_to_canonical, dry_run) ==
    LET docs == documents(files)
        prior(doc_id) == files[docs[doc_id]].prior_opinions
        cited_by(target) ==
            {doc_id \in DOMAIN docs :
                \E cited_id \in prior(doc_id) : variant_to_canonical[cited_id] = target}
        dangling(cited_id) ==
            {doc_id \in DOMAIN docs :
                cited_id \in prior(doc_id) /\ variant_to_canonical[cited_id] = NoId}
        written == {docs[doc_id] : doc_id \in DOMAIN docs}
    IN  [files |-> IF dry_run THEN files
                   ELSE [p \in GraphPaths |->
                            IF p \in written
                            THEN [files[p] EXCEPT !.cited_by = cited_by(files[p].id)]
                            ELSE files[p]],
         gaps |-> {[id |-> cited_id, cited_by_count |-> Cardinality(dangling(cited_id))] :
                        cited_id \in {c \in CitedIds : dangling(c) # {}}}]

\* build_citation_graph.py over the corpus held in call.files.
build_citation_graph(dry_run) ==
    /\ call.op = "build_citation_graph"
    /\ LET known_ids == DOMAIN documents(call.files)
       IN  \E variant_to_canonical \in build_id_lookup(known_ids) :
             LET out == citation_graph(call.files, variant_to_canonical, dry_run)
             IN  call' = [call EXCEPT !.files = out.files,
                                      !.known_gaps = IF dry_run THEN @ ELSE out.gaps,
                                      !.lookup = IF dry_run THEN @ ELSE variant_to_canonical,
                                      !.passes = IF dry_run THEN @ ELSE Min(@ + 1, 2)]
    /\ UNCHANGED <<pipeline, aux, llm_call, page_loop>>

\* ------------------------------------------------------------ self-citations
\* _normalize_prior_opinion: towards "X-YY-NNN"; an OCR-misread prefix 4 or
\* 1 becomes A or I, an id without prefix is taken to be an A letter.
ocr_prefix_map(prefix) ==
    IF prefix = "4" THEN "A" ELSE IF prefix = "1" THEN "I" ELSE prefix

normalize_prior_opinion(opinion_id) ==
    IF opinion_id.form \in {"P-yy-nnn", "Pyynnn"}
    THEN LetterId(ocr_prefix_map(opinion_id.prefix), opinion_id.yy, opinion_id.nnn, "P-yy-nnn")
    ELSE IF opinion_id.form \in {"yynnn", "yy-nnn"}
    THEN LetterId("A", opinion_id.yy, opinion_id.nnn, "P-yy-nnn")
    ELSE opinion_id

\* _extract_prior_opinions: the ids the patterns capture, normalised.
extract_prior_opinions(captured) == {normalize_prior_opinion(c) : c \in captured}

\* _build_self_id_variants, cases 1 to 4.
build_self_id_variants(letter_id) ==
    LET yy == letter_id.yy
        nnn == letter_id.nnn
        with_prefixes == {LetterId(P, yy, nnn, "P-yy-nnn") : P \in Prefixes}
    IN  {letter_id} \cup
        (IF letter_id.form = "P-yy-nnn"
         THEN {LetterId("", yy, nnn, "yy-nnn"), LetterId("", yy, nnn, "yynnn"),
               LetterId(letter_id.prefix, yy, nnn, "Pyynnn")}
         ELSE IF letter_id.form = "yy-nnn"
         THEN {LetterId("", yy, nnn, "yynnn")} \cup with_prefixes
         ELSE IF letter_id.form = "yynnn"
         THEN {LetterId("", yy, nnn, "yy-nnn")} \cup with_prefixes
         ELSE IF letter_id.form = "yyPnnn"
         THEN {LetterId(letter_id.prefix, yy, nnn, "P-yy-nnn"),
               LetterId("", yy, nnn, "yy-nnn"), LetterId("", yy, nnn, "yynnn")}
         ELSE {})

\* process_document, steps 6 and 6b, for a letter with an id.
filter_self_citations(letter_id, prior_opinions) ==
    {op \in prior_opinions : op \notin build_self_id_variants(letter_id)}

\* The ids of the letters whose extraction is followed here, and what the
\* patterns can capture in their text: the letter's own number in each
\* written form, and another letter.
OwnIds ==
    {LetterId(P, 22, 78, "P-yy-nnn") : P \in Prefixes}
        \cup {LetterId(P, 22, 78, "yyPnnn") : P \in Prefixes}
        \cup {LetterId("", 22, 78, "yy-nnn"), LetterId("", 22, 78, "yynnn")}
Captured ==
    {LetterId(P, 22, 78, "P-yy-nnn") : P \in Prefixes \cup {"4", "1"}}
        \cup {LetterId("A", 22, 78, "Pyynnn"), LetterId("", 22, 78, "yy-nnn"),
              LetterId("", 22, 78, "yynnn"), LetterId("A", 21, 5, "P-yy-nnn")}

process_document_citations ==
    /\ call.op = "extract_citations"
    /\ ~call.done
    /\ call' = [call EXCEPT
                    !.prior_opinions =
                        filter_self_citations(call.letter_id,
                                              extract_prior_opinions(call.captured)),
                    !.done = TRUE]
    /\ UNCHANGED <<pipeline, aux, llm_call, page_loop>>

\* ------------------------------------------------------- heuristic classifier
\* TOPIC_RANGES: range(a, b) holds a .. b - 1.
TOPIC_RANGES ==
    [conflicts_of_interest |-> {<<87100, 87501>>, <<87200, 87221>>, <<87300, 87316>>},
     campaign_finance |-> {<<84100, 84601>>, <<85100, 85801>>, <<89500, 89601>>},
     lobbying |-> {<<86100, 86401>>}]

\* A citation is a base section and a subsection suffix; a citation that does
\* not start with digits has no base section.
NoSection == 0
Citation(base, sub) == [base |-> base, sub |-> sub]
extract_base_section(citation) == citation.base

classify_section(section_num) ==
    IF \E topic \in DOMAIN TOPIC_RANGES : \E r \in TOPIC_RANGES[topic] :
          r[1] <= section_num /\ section_num < r[2]
    THEN CHOOSE topic \in DOMAIN TOPIC_RANGES : \E r \in TOPIC_RANGES[topic] :
          r[1] <= section_num /\ section_num < r[2]
    ELSE "other"

\* sorted(topic_counts.keys())
SortedTopics == <<"campaign_finance", "conflicts_of_interest", "lobbying", "other">>

NoTopic == "None"
ClassificationResult(topic_primary, num, den, section_counts) ==
    [topic_primary |-> topic_primary, confidence |-> [num |-> num, den |-> den],
     method |-> "heuristic:citation_based", section_counts |-> section_counts]

\* classify_by_citations; the confidence primary_count / valid_citation_count
\* is kept as the fraction num / den (0.0 is 0 / 1).
classify_by_citations(government_code_citations) ==
    LET valid == {c \in government_code_citations : extract_base_section(c) # NoSection}
        topic_counts ==
            [t \in {SortedTopics[i] : i \in DOMAIN SortedTopics} |->
                Cardinality({c \in valid : classify_section(extract_base_section(c)) = t})]
        valid_citation_count == Cardinality(valid)
        \* max over the sorted keys returns the first key with the largest count
        first_max == CHOOSE i \in DOMAIN SortedTopics :
                        /\ \A j \in DOMAIN SortedTopics :
                              topic_counts[SortedTopics[j]] <= topic_counts[SortedTopics[i]]
                        /\ \A j \in 1 .. i - 1 :
                              topic_counts[SortedTopics[j]] < topic_counts[SortedTopics[i]]
        primary_topic == SortedTopics[first_max]
        primary_count == topic_counts[primary_topic]
    IN  IF government_code_citations = {}
        THEN ClassificationResult(NoTopic, 0, 1, [t \in {} |-> 0])
        ELSE IF valid_citation_count = 0
        THEN ClassificationResult(NoTopic, 0, 1, topic_counts)
        ELSE ClassificationResult(IF primary_count > 0 THEN primary_topic ELSE NoTopic,
                                  primary_count, valid_citation_count, topic_counts)

\* The statute references a letter's text can hold.
GovCodeCitations ==
    {Citation(87100, ""), Citation(87103, "(a)"), Citation(87200, ""),
     Citation(84200, ""), Citation(85100, ""), Citation(86100, ""),
     Citation(1090, ""), Citation(91000, ""), Citation(NoSection, "")}

\* process_document, step 7.
process_document_classify ==
    /\ call.op = "classify"
    /\ ~call.done
    /\ call' = [call EXCEPT
                    !.classification = classify_by_citations(call.government_code),
                    !.done = TRUE]
    /\ UNCHANGED <<pipeline, aux, llm_call, page_loop>>

\* ------------------------------------------------------------ section parser
\* A text is TextLen tokens long; offsets run from 0 to TextLen.  A header
\* match is one token long; an end pattern matches at a set of offsets.
TextLen == 5
Offsets == 0 .. TextLen
NoOffset == 0 - 1
MIN_SECTION_WORDS == 1
SetMin(S) == CHOOSE x \in S : \A y \in S : x <= y

SectionMatch(section_type, header_start) ==
    [section_type |-> section_type, header_start |-> header_start,
     header_end |-> header_start + 1]

\* _find_document_end: per pattern the first match at or after `after`, and
\* of these the earliest.  patterns: one set of match offsets per pattern.
find_document_end(patterns, after) ==
    LET firsts == {SetMin({m \in patterns[i] : m >= after}) :
                      i \in {j \in DOMAIN patterns : \E m \in patterns[j] : m >= after}}
    IN  IF firsts = {} THEN NoOffset ELSE SetMin(firsts)

\* _find_section_end
find_section_end(content_start, next_header_start, document_end) ==
    SetMin({TextLen}
           \cup (IF next_header_start # NoOffset THEN {next_header_start} ELSE {})
           \cup (IF document_end # NoOffset /\ document_end > content_start
                 THEN {document_end} ELSE {}))

\* _validate_and_extract: the content span of every match that keeps at
\* least MIN_SECTION_WORDS words (one token is one word).
validate_and_extract(matches, patterns) ==
    LET later(m) == {n.header_start : n \in {x \in matches : x.header_start > m.header_start}}
        next_start(m) == IF later(m) = {} THEN NoOffset ELSE SetMin(later(m))
        section_end(m) == find_section_end(m.header_end, next_start(m),
                                           find_document_end(patterns, m.header_end))
    IN  {[section_type |-> m.section_type, content_start |-> m.header_end,
          content_end |-> section_end(m)] :
            m \in {x \in matches : section_end(x) - x.header_end >= MIN_SECTION_WORDS}}

\* The header matches _find_section_matches can return on a text: at most
\* one per section type, at different offsets.
SectionMatches ==
    {{}} \cup {{SectionMatch(t, h)} : t \in {"question", "conclusion"}, h \in 0 .. TextLen - 1}
         \cup {{SectionMatch("question", p[1]), SectionMatch("conclusion", p[2])} :
                    p \in {x \in (0 .. TextLen - 1) \X (0 .. TextLen - 1) : x[1] # x[2]}}
\* The matches of two end patterns (a closing, which can match several
\* times, and a divider).
EndPatterns ==
    {<<closing, divider>> : closing \in SUBSET Offsets,
                           divider \in {{}} \cup {{o} : o \in Offsets}}

\* process_document, step 5.
parse_sections ==
    /\ call.op = "parse_sections"
    /\ ~call.done
    /\ call' = [call EXCEPT
                    !.extracted = validate_and_extract(call.matches, call.patterns),
                    !.done = TRUE]
    /\ UNCHANGED <<pipeline, aux, llm_call, page_loop>>

\* ------------------------------------------------------- spend on remote APIs
\* The main loops of the scripts that pay per call, reduced to what decides
\* how much is spent: the queue, the cumulative cost and the limit argument.
MaxQueue == 3
NoLimit == 0
Scripts == {"reocr_corpus", "verify_high_risk", "sample_medium_risk", "haiku_reocr"}
Ceilings == {1, 2, 3}
CallCosts == {0, 1, 2}
NoRun == [script |-> "none", ceiling |-> NoLimit, max_cost |-> NoLimit,
          todo |-> 0, spend |-> 0]

\* argparse: only reocr_corpus.py declares --max-cost; the other parsers
\* reject the argument, so their runs carry no limit.
accepts_max_cost(script) == script = "reocr_corpus"

\* The operator starts `script` over n queued documents, wanting to spend no
\* more than `ceiling`.
start_run(script, ceiling, n) ==
    /\ run.todo = 0
    /\ run' = [script |-> script, ceiling |-> ceiling,
                max_cost |-> IF accepts_max_cost(script) THEN ceiling ELSE NoLimit,
                todo |-> n, spend |-> 0]
    /\ UNCHANGED <<pipeline, checkpoint, crawl, crawled, report_file, scan, locals>>

\* reextract_candidates: one iteration, then the cost check that breaks out
\* of the loop.
reextract_loop(cost) ==
    LET current_cost == run.spend + cost
    IN  /\ run.script = "reocr_corpus"
        /\ run.todo > 0
        /\ run' = [run EXCEPT !.spend = current_cost,
                               !.todo = IF run.max_cost # NoLimit /\ current_cost >= run.max_cost
                                        THEN 0 ELSE @ - 1]
        /\ UNCHANGED <<pipeline, checkpoint, crawl, crawled, report_file, scan, locals>>

\* The loops of verify_high_risk.py, sample_medium_risk.py and haiku_reocr.py:
\* total_cost is accumulated for the report and never tested.
haiku_loop(script, cost) ==
    /\ script \in Scripts \ {"reocr_corpus"}
    /\ run.script = script
    /\ run.todo > 0
    /\ run' = [run EXCEPT !.spend = @ + cost, !.todo = @ - 1]
    /\ UNCHANGED <<pipeline, checkpoint, crawl, crawled, report_file, scan, locals>>

\* ---------------------------------------------------------- initial states
\* The table as a crawl leaves it: one row per unique URL, every status at
\* its default, nothing on disk.
EmptyStore ==
    /\ pdfs = [p \in PdfPaths |-> NoPdf]
    /\ recs = [p \in RecPaths |-> NoRec]
    /\ canary_report = [d \in Docs |-> NoEntry]
    /\ validation_report = {}
    /\ crashes = 0
    /\ run = NoRun
    /\ checkpoint = NoCheckpoint
    /\ crawl = NotCrawling
    /\ crawled = {}
    /\ report_file = NoReport
    /\ scan = NotScanning
    /\ llm_call = NoCall
    /\ page_loop = NotInLoop

EmptyDisk ==
    /\ EmptyStore
    /\ call = NoFunction

\* Any last URL segment (two URLs may end in the same one).
InitFetch ==
    /\ \E fn \in [Docs -> FileNames], yr \in [Docs -> Years] :
          rows = [d \in Docs |-> insert_document(<<d, fn[d]>>, NoLetterId, yr[d])]
    /\ EmptyDisk

\* letter_id carries no UNIQUE constraint and may be NULL; each URL here has
\* its own last segment.
Init ==
    /\ \E lid \in [Docs -> LetterIds \cup {NoLetterId}] :
          rows = [d \in Docs |-> insert_document(<<d, <<"letter", d>>>>, lid[d], 2022)]
    /\ EmptyDisk

\* A catalog that spans several years.
InitYears ==
    /\ \E yr \in [Docs -> Years] :
          rows = [d \in Docs |-> insert_document(<<d, <<"letter", d>>>>, NoLetterId, yr[d])]
    /\ EmptyDisk

\* A corpus of record files as extraction leaves them: cited_by empty.
GraphFiles ==
    {NoFile} \cup {GraphFile(id, prior, {}) : id \in GraphDocIds, prior \in SUBSET CitedIds}
InitGraph ==
    /\ \E files \in [GraphPaths -> GraphFiles] :
          /\ \A p \in GraphPaths : files[p].exists => files[p].id = p[2]
          /\ call = [op |-> "build_citation_graph", files |-> files, known_gaps |-> {},
                     lookup |-> [v \in {} |-> NoId], passes |-> 0]
    /\ rows = [d \in Docs |-> insert_document(<<d, <<"letter", d>>>>, NoLetterId, 2022)]
    /\ EmptyStore

\* A text about to be parsed: its header matches and end-pattern matches.
InitSections ==
    /\ \E matches \in SectionMatches, patterns \in EndPatterns :
          call = [op |-> "parse_sections", matches |-> matches, patterns |-> patterns,
                  extracted |-> {}, done |-> FALSE]
    /\ rows = [d \in Docs |-> insert_document(<<d, <<"letter", d>>>>, NoLetterId, 2022)]
    /\ EmptyStore

\* A letter about to be extracted: its id and the ids captured in its text.
InitCitations ==
    /\ \E letter_id \in OwnIds, captured \in SUBSET Captured :
          call = [op |-> "extract_citations", letter_id |-> letter_id,
                  captured |-> captured, prior_opinions |-> {}, done |-> FALSE]
    /\ rows = [d \in Docs |-> insert_document(<<d, <<"letter", d>>>>, NoLetterId, 2022)]
    /\ EmptyStore

\* A letter about to be classified: the statute references of its text.
InitClassify ==
    /\ \E government_code \in SUBSET GovCodeCitations :
          call = [op |-> "classify", government_code |-> government_code,
                  classification |-> ClassificationResult(NoTopic, 0, 1, [t \in {} |-> 0]),
                  done |-> FALSE]
    /\ rows = [d \in Docs |-> insert_document(<<d, <<"letter", d>>>>, NoLetterId, 2022)]
    /\ EmptyStore

\* A catalog whose titles carry no letter id.
InitVerify ==
    /\ rows = [d \in Docs |-> insert_document(<<d, <<"letter", d>>>>, NoLetterId, 2022)]
    /\ EmptyDisk

\* ------------------------------------------------ operations and their inputs
StartRun ==
    \E script \in Scripts, ceiling \in Ceilings, n \in 1..MaxQueue :
        start_run(script, ceiling, n)

StepResults == {CanaryResult(80, PlainText), CanaryError}

ScanStart == \E resume \in BOOLEAN, limit \in {0, 1} : scan_start(resume, limit)

ScanStep == \E outcome \in StepResults, kill \in ScanKills : scan_step(outcome, kill)

ScanFinish == \E update_db \in BOOLEAN, kill \in {"none", "in_save"} : scan_finish(update_db, kill)

CrawlAll == crawl_all

CrawlYear == \E fetch_ok \in BOOLEAN, kill \in CrawlKills : crawl_year(fetch_ok, kill)

CrawlOneYear == \E year \in CrawlYears : main_year(year)

CrawlYearFetched == \E kill \in CrawlKills : crawl_year(TRUE, kill)

CrawlYearBegin ==
    \E year \in {START_YEAR}, start_page \in {1, 2}, fetches \in FetchOutcomes,
       total_results \in ResultCounts, total_pages \in PageCounts :
        crawl_year_begin(year, start_page, fetches, total_results, total_pages)

CrawlYearLoop ==
    \E fetches \in FetchOutcomes, results \in PageResults : crawl_year_loop(fetches, results)

BuildCitationGraph == \E dry_run \in BOOLEAN : build_citation_graph(dry_run)

ReocrLoop == \E cost \in CallCosts : reextract_loop(cost)

HaikuLoop == \E script \in Scripts, cost \in CallCosts : haiku_loop(script, cost)

FetchStep ==
    \E d \in Docs, body \in Bodies, fails \in 0..MAX_RETRIES :
        download_pending(d, body, fails)

FetchKilled ==
    \E d \in Docs, body \in Bodies : \E k \in 0..Len(body) :
        download_interrupted(d, body, k)

\* Each URL serves one fixed body of MaxChunks chunks; a download can be
\* killed after any number of them.
ServedBody(d) == [i \in 1..MaxChunks |-> ((d + i) % 2) + 1]

FetchServed ==
    \E d \in Docs, fails \in 0..MAX_RETRIES :
        download_pending(d, ServedBody(d), fails)

FetchServedKilled ==
    \E d \in Docs : \E k \in 0..Len(ServedBody(d)) :
        download_interrupted(d, ServedBody(d), k)

\* Each URL serves one fixed body; a download works at once or never.
Fetch ==
    \E d \in Docs, fails \in {0, MAX_RETRIES} :
        download_pending(d, <<((d - 1) % 2) + 1>>, fails)

\* The ids _extract_letter_id_from_text can find matter only for a row
\* without a letter_id.
RecoverableIds(r) ==
    IF r.letter_id = NoLetterId THEN LetterIds \cup {NoLetterId} ELSE {NoLetterId}

Extract ==
    \E d \in Docs, skip_olmocr \in BOOLEAN, native \in NativeMetrics \cup {NativeFailed},
       olm \in OlmocrScores, sec \in SectionResults, killed \in BOOLEAN :
        \E rid \in RecoverableIds(rows[d]) :
            extract_all(d, skip_olmocr, native, olm, rid, sec, killed)

RemovePdf == \E path \in PdfPaths : remove_pdf(path)

\* Letters in standard format, extraction not killed.
StandardSections == SectionResult("regex_validated", 90, TRUE)

ExtractStandard ==
    \E d \in Docs, native \in NativeMetrics, olm \in OlmocrScores :
        extract_all(d, FALSE, native, olm, NoLetterId, StandardSections, FALSE)

\* Scanned letters: the embedded text layer is poor.
ScannedMetrics == Metrics(40, 40, 60, 9)

ExtractScanned ==
    \E d \in Docs, olm \in OlmocrScores :
        extract_all(d, FALSE, ScannedMetrics, olm, NoLetterId, StandardSections, FALSE)

\* Scanned letters some of which PyMuPDF cannot open.
ExtractAttempt ==
    \E d \in Docs, native \in {ScannedMetrics, NativeFailed}, olm \in OlmocrScores :
        extract_all(d, FALSE, native, olm, NoLetterId, StandardSections, FALSE)

ExtractExcept ==
    \E d \in Docs, olm \in OlmocrScores, after_save \in BOOLEAN :
        extract_all_except(d, FALSE, ScannedMetrics, olm, NoLetterId,
                           StandardSections, after_save)

Synthesise ==
    \E d \in Docs, db_error \in BOOLEAN :
        llm_process_document(d, [a \in 1..LLM_ATTEMPTS |-> "json"],
                             LlmResult("llm text\f", "llm text\f"), db_error)

\* Letters whose sections the regex parser finds in part or not at all, so
\* that the row is flagged for synthesis.
FlaggedSections ==
    {SectionResult("none", 0, FALSE), Sections("regex", 40, TRUE, "regex question", "")}

ExtractFlagged ==
    \E d \in Docs, sec \in FlaggedSections :
        extract_all(d, TRUE, ScannedMetrics, NoScore, NoLetterId, sec, FALSE)

SynthesiseAny ==
    \E d \in Docs, responses \in ResponseSeqs, llm_result \in LlmResults,
       db_error \in BOOLEAN :
        llm_process_document(d, responses, llm_result, db_error)

Backfill == backfill_native_fidelity

Reocr ==
    \E d \in Docs, skip_already_ocr \in BOOLEAN, native \in NativeMetrics,
       olm \in OlmocrScores, kill \in KillPoints :
        /\ reextract_candidates(d, skip_already_ocr, native, olm, NoLetterId,
                                StandardSections, kill)
        /\ <<rows, recs>>' # <<rows, recs>>

ReocrScanned ==
    \E d \in Docs, skip_already_ocr \in BOOLEAN, olm \in OlmocrScores, kill \in KillPoints :
        /\ reextract_candidates(d, skip_already_ocr, ScannedMetrics, olm, NoLetterId,
                                StandardSections, kill)
        /\ <<rows, recs>>' # <<rows, recs>>

ReocrFlagged ==
    \E d \in Docs, sec \in FlaggedSections :
        reextract_candidates(d, FALSE, ScannedMetrics, 95, NoLetterId, sec, "none")

Validate == qa_corpus_validate

FixLowDensity ==
    \E entry \in validation_report, native \in NativeMetrics,
       olm \in OlmocrScores, kill \in KillPoints :
        /\ fix_low_density(entry, native, olm, NoLetterId, StandardSections, kill)
        /\ <<rows, recs>>' # <<rows, recs>>

Canary ==
    \E resume \in BOOLEAN, limit \in {0, 1}, update_db \in BOOLEAN :
        \E outcome \in [work_items(resume, limit) -> CanaryResults] :
            /\ canary_main(resume, limit, update_db, outcome)
            /\ <<rows, canary_report>>' # <<rows, canary_report>>

\* Phase 1 over records whose text may open any paragraph with a marker.
ScanScores == {20, 80}
ScanResults ==
    {CanaryResult(sc, text) : sc \in ScanScores, text \in OlmocrTexts} \cup {CanaryError}
CanaryScan ==
    \E resume \in BOOLEAN, limit \in {0, 1}, update_db \in BOOLEAN :
        \E outcome \in [work_items(resume, limit) -> ScanResults] :
            /\ canary_main(resume, limit, update_db, outcome)
            /\ <<rows, canary_report>>' # <<rows, canary_report>>

Phase2 ==
    \E d \in Docs, update_db \in BOOLEAN, haiku \in HaikuResults,
       tess \in TessResults, killed \in BOOLEAN :
        /\ verify_high_risk(d, update_db, haiku, tess, killed)
        /\ <<rows, recs>>' # <<rows, recs>>

Phase3 ==
    \E sample \in SUBSET get_medium_risk_docs :
        \E outcome \in [sample -> HaikuResults \cup {HaikuError}] :
            /\ sample_medium_risk(sample, outcome)
            /\ rows' # rows

FixCritical ==
    \E d \in Docs, tesseract_only \in BOOLEAN, olm \in OlmocrScores,
       has_desc \in BOOLEAN, tess \in TessResults, kill \in KillPoints :
        /\ fix_critical_fidelity(d, tesseract_only, ScannedMetrics, olm, NoLetterId,
                                 StandardSections, has_desc, tess, kill)
        /\ <<rows, recs>>' # <<rows, recs>>

Phase4 ==
    \E d \in Docs, by_doc_id \in BOOLEAN, killed \in BOOLEAN :
        haiku_reocr(d, by_doc_id, killed)

\* ------------------------------------------------------------ specifications
\* The Binary Fetcher on its own, with interrupted downloads.
NextFetch == FetchStep \/ FetchKilled

SpecFetch == InitFetch /\ [][NextFetch]_vars

\* download_pending keeps querying the pending rows until none is left; a
\* killed run is started again.
SpecFetchRun == SpecFetch /\ WF_vars(FetchStep)

\* The Binary Fetcher against a site that serves one body per URL.
NextFetchServed == FetchServed \/ FetchServedKilled

SpecFetchServed == InitFetch /\ [][NextFetchServed]_vars

\* Fetch, extraction and LLM synthesis over any catalog.
Next == Fetch \/ Extract \/ Synthesise \/ Backfill

Spec == Init /\ [][Next]_vars

\* The re-extraction scripts over any catalog.
NextRepair ==
    \/ Fetch
    \/ ExtractStandard
    \/ Backfill
    \/ Reocr
    \/ Validate
    \/ FixLowDensity

SpecRepair == Init /\ [][NextRepair]_vars

\* Verifier Phases 1 to 4 over scanned letters.
NextVerify ==
    \/ Fetch
    \/ ExtractScanned
    \/ Canary
    \/ Phase2
    \/ Phase3
    \/ Phase4

SpecVerify == InitVerify /\ [][NextVerify]_vars

\* Phase 1, the repair of its critical tier and corpus re-OCR over scanned
\* letters.
NextCritical ==
    \/ Fetch
    \/ ExtractScanned
    \/ Backfill
    \/ ReocrScanned
    \/ Canary
    \/ FixCritical

SpecCritical == InitVerify /\ [][NextCritical]_vars

\* Phase 1 alone, over every shape of vision-OCR text.
NextCanary ==
    \/ Fetch
    \/ ExtractScanned
    \/ CanaryScan

SpecCanary == InitVerify /\ [][NextCanary]_vars

\* The paid scripts, run one after another.
NextBudget ==
    \/ StartRun
    \/ ReocrLoop
    \/ HaikuLoop

SpecBudget == InitVerify /\ [][NextBudget]_vars

\* Synthesis over flagged letters, some re-extracted afterwards.
NextSynth ==
    \/ Fetch
    \/ ExtractFlagged
    \/ SynthesiseAny
    \/ ReocrFlagged

SpecSynth == InitVerify /\ [][NextSynth]_vars

\* The Synthesiser is run again and again: while some flagged row is
\* selected, a run processes one.
SpecSynthRun == SpecSynth /\ WF_vars(SynthesiseAny)

\* The three stages of the pipeline over a catalog of several years.
NextOrder ==
    \/ Fetch
    \/ ExtractFlagged
    \/ Synthesise

SpecOrder == InitYears /\ [][NextOrder]_vars

\* crawl_year page by page; a running page loop goes on.
NextCrawlYear == CrawlYearBegin \/ CrawlYearLoop

SpecCrawlYear == InitVerify /\ [][NextCrawlYear]_vars /\ WF_vars(CrawlYearLoop)

\* The citation-graph pass, run any number of times.
NextGraph == BuildCitationGraph

SpecGraph == InitGraph /\ [][NextGraph]_vars

\* Crawls whose every fetch succeeds: runs over all years, single-year
\* runs, interruptions and restarts.
NextCrawlResume == CrawlAll \/ CrawlOneYear \/ CrawlYearFetched

SpecCrawlResume == InitVerify /\ [][NextCrawlResume]_vars

\* Section parsing of one text.
NextSections == parse_sections

SpecSections == InitSections /\ [][NextSections]_vars

\* Citation extraction of one letter.
NextCitations == process_document_citations

SpecCitations == InitCitations /\ [][NextCitations]_vars

\* Record files written by the Extractor and rewritten by the Synthesiser
\* and by Phase 4.
NextRoundTrip ==
    \/ Fetch
    \/ ExtractScanned
    \/ ExtractFlagged
    \/ Synthesise
    \/ Phase4

SpecRoundTrip == InitVerify /\ [][NextRoundTrip]_vars

\* Topic classification of one letter.
NextClassify == process_document_classify

SpecClassify == InitClassify /\ [][NextClassify]_vars

\* The Text Extractor over binaries that may be missing or unreadable.
NextExtract ==
    \/ Fetch
    \/ RemovePdf
    \/ ExtractAttempt
    \/ ExtractExcept

SpecExtract == InitVerify /\ [][NextExtract]_vars

\* Phase 1 run item by item, interrupted and resumed.
NextScan ==
    \/ Fetch
    \/ ExtractScanned
    \/ ScanStart
    \/ ScanStep
    \/ ScanFinish

SpecScan == InitVerify /\ [][NextScan]_vars

\* Phase 1 started again and again with --resume, each run carried on while
\* it has an item to scan or a report to save.
ScanResume == scan_start(TRUE, NoLimit)

NextScanResumed ==
    \/ Fetch
    \/ ExtractScanned
    \/ ScanResume
    \/ ScanStep
    \/ ScanFinish

SpecScanResumed ==
    /\ InitVerify
    /\ [][NextScanResumed]_vars
    /\ WF_vars(ScanResume) /\ WF_vars(ScanStep) /\ WF_vars(ScanFinish)

\* The crawler, started without arguments, killed and restarted.
NextCrawl ==
    \/ CrawlAll
    \/ CrawlYear

SpecCrawl == InitVerify /\ [][NextCrawl]_vars

\* ------------------------------------------------------------------ claims
RecordOf(d) == recs[rows[d].json_path]
HasRecord(d) == rows[d].json_path # NoPath /\ RecordOf(d) # NoRec
OwnsRecord(d) ==
    HasRecord(d) /\ RecordOf(d).pdf_url = <<"https://fppc.ca.gov", rows[d].pdf_url>>

\* C1: at every point where a stage can fail between rewriting the record
\* file and updating the row, the row's method, quality score and synthesis
\* status agree with the record file the row points to.
C1_RowAgreesWithRecord ==
    \A d \in Docs :
        OwnsRecord(d) =>
            /\ rows[d].extraction_method = RecordOf(d).method
            /\ rows[d].extraction_quality = RecordOf(d).quality_score
            /\ (rows[d].llm_extracted_at # NULL) = (RecordOf(d).sections_method = "llm")

\* C2: a row's extraction_status is extracted only while its download_status
\* is downloaded, whichever script wrote the status.
C2_ExtractedOnlyIfDownloaded ==
    \A d \in Docs :
        rows[d].extraction_status = "extracted" => rows[d].download_status = "downloaded"

\* C3: for every extracted row the record file exists at json_path and its
\* letter id, year, remote URL and content hash are the row's.
C3_RecordIdentityMatchesRow ==
    \A d \in Docs :
        rows[d].extraction_status = "extracted" =>
            /\ HasRecord(d)
            /\ rows[d].letter_id # NoLetterId => RecordOf(d).id = rows[d].letter_id
            /\ RecordOf(d).year = rows[d].year_tag
            /\ RecordOf(d).pdf_url = <<"https://fppc.ca.gov", rows[d].pdf_url>>
            /\ RecordOf(d).pdf_sha256 = rows[d].pdf_sha256

\* C4: no two rows have the same record file path.
C4_RecordOwnedByOneRow ==
    \A d, e \in Docs :
        (d # e /\ rows[d].json_path # NoPath) => rows[d].json_path # rows[e].json_path

\* C6: whenever a row's extraction method is native (embedded text), its
\* fidelity method is native_trusted, its score 1.0 and its tier verified.
C6_NativeIsTrusted ==
    \A d \in Docs :
        rows[d].extraction_method = "native" =>
            /\ rows[d].fidelity_method = "native_trusted"
            /\ rows[d].fidelity_score = 100
            /\ rows[d].fidelity_risk = "verified"

\* C5: whenever a row's fidelity_risk is low or verified, its fidelity_score
\* is at least 0.7, after every Verifier phase and repair path.
C5_TrustedMeansScoreAtLeast70 ==
    \A d \in Docs :
        rows[d].fidelity_risk \in {"low", "verified"} => rows[d].fidelity_score >= 70

\* C7: a row whose record was produced by a vision- or LLM-based method
\* (olmocr, haiku_vision) is in tier low or verified only if Phase 1 has
\* scored that Document.
VisionMethods == {"olmocr", "haiku_vision"}
C7_VisionTrustedOnlyAfterPhase1 ==
    \A d \in Docs :
        (rows[d].extraction_method \in VisionMethods
            /\ rows[d].fidelity_risk \in {"low", "verified"})
        => (canary_report[d].present /\ ~canary_report[d].error)

\* C8: no step writes the fidelity columns of a row whose extraction_status
\* is not extracted when the write lands.
Fidelity(r) == <<r.fidelity_score, r.fidelity_method, r.fidelity_risk>>
C8_FidelityOnlyOnExtracted ==
    [][\A d \in Docs :
          Fidelity(rows'[d]) # Fidelity(rows[d])
              => rows'[d].extraction_status = "extracted"]_vars

\* C10: a Phase 2 step (run with --update-db) that finds a record
\* hallucinated and whose classical-OCR text is usable leaves the row with
\* method tesseract_fallback, a fidelity score of at least 0.7 and tier low.
C10_Phase2RepairEndsLow ==
    [][\A d \in Docs, haiku \in HaikuResults, tess \in TessResults :
          (/\ haiku.is_hallucinated
           /\ tesseract_usable(tess)
           /\ HasRecord(d)
           /\ verify_high_risk(d, TRUE, haiku, tess, FALSE))
          => (/\ rows'[d].extraction_method = "tesseract_fallback"
              /\ rows'[d].fidelity_score >= 70
              /\ rows'[d].fidelity_risk = "low")]_vars

\* C9: for every Document whose download_status is downloaded, the local
\* binary exists and its SHA-256 equals the row's pdf_sha256.
C9_DownloadedBinaryMatchesHash ==
    \A d \in Docs :
        rows[d].download_status = "downloaded" =>
            /\ pdfs[get_pdf_path(rows[d])] # NoPdf
            /\ Sha256(pdfs[get_pdf_path(rows[d])]) = rows[d].pdf_sha256

\* A row that went through a fresh multi-chunk download, and another that
\* adopted the file already on disk under the same name.
C9_Witness ==
    \E d, e \in Docs :
        /\ d # e
        /\ rows[d].download_status = "downloaded"
        /\ rows[e].download_status = "downloaded"
        /\ get_pdf_path(rows[d]) = get_pdf_path(rows[e])
        /\ rows[d].pdf_size_bytes > 1

\* C11: in Phase 1 a Document whose vision-OCR text carries a description-mode
\* marker at the start of the text or at any paragraph boundary is classified
\* critical, whatever its canary score.
C11_MarkerMeansCritical ==
    \A d \in Docs :
        (canary_report[d].present /\ ~canary_report[d].error
            /\ canary_report[d].description_pages # {})
        => canary_report[d].risk_tier = "critical"

\* C12: Phase 3 upgrades medium-tier rows to low only when the hallucination
\* rate observed in the adjudicated sample (the sampled records Haiku could
\* compare) is below the threshold; in every other outcome none is upgraded.
Adjudicated(sample, outcome) ==
    {d \in sample : /\ ~outcome[d].error
                    /\ ~outcome[d].is_unreadable
                    /\ resolve_pdf_path(rows[d])
                    /\ rows[d].json_path # NoPath}
RateBelowThreshold(sample, outcome) ==
    LET adj == Adjudicated(sample, outcome)
        bad == {d \in adj : outcome[d].is_hallucinated}
    IN  /\ adj # {}
        /\ Cardinality(bad) * 100 < PHASE3_ACCEPT_BELOW * Cardinality(adj)
C12_AcceptOnlyBelowThreshold ==
    [][\A sample \in SUBSET get_medium_risk_docs :
          \A outcome \in [sample -> HaikuResults \cup {HaikuError}] :
              (/\ sample_medium_risk(sample, outcome)
               /\ \E d \in get_medium_risk_docs :
                     /\ rows[d].fidelity_risk # "low"
                     /\ rows'[d].fidelity_risk = "low")
              => RateBelowThreshold(sample, outcome)]_vars

\* C13: every phase that spends on a remote API accepts a max-USD limit and
\* halts once cumulative spend equals or exceeds it: no run makes a further
\* paid call when its spend has reached the operator's ceiling.
C13_SpendStopsAtCeiling ==
    [][run'.spend > run.spend => run.spend < run.ceiling]_vars

\* C14: the Verifier phases are checkpointed: once a Phase 2 run has processed
\* a Document (the run may be interrupted right after), a re-run of the phase
\* does not select that Document again.
C14_RerunSkipsProcessed ==
    [][\A d \in Docs, update_db \in BOOLEAN, haiku \in HaikuResults, tess \in TessResults :
          verify_high_risk(d, update_db, haiku, tess, FALSE)
              => d \notin get_high_risk_docs']_vars

\* C16: checkpoint files are rewritten atomically: whenever a run is
\* interrupted, the file on disk is a complete checkpoint (the previous one or
\* the new one), never a partial one.
C16_CheckpointNeverTorn ==
    checkpoint.state # "torn"

\* C17: started without arguments, the crawler resumes from the year after
\* the last completed one: every page of the year it resumes after has been
\* processed.
C17_ResumesAfterCompletedYear ==
    crawl.checkpoint_year # 0 =>
        \A page \in 1..get_page_count(crawl.checkpoint_year) :
            <<crawl.checkpoint_year, page>> \in crawled

\* C18: a year whose first page could not be fetched is skipped, and the
\* checkpoint is not advanced past it.
C18_CheckpointNotPastSkippedYear ==
    \A year \in crawl.skipped :
        checkpoint.state = "ok" => checkpoint.last_completed_year < year

\* C15: on resumption Phase 1 skips every Document recorded in the
\* checkpoint, so the report of a finished run lists each scanned Document
\* (those of the checkpoint and those of this run) exactly once.
Occurrences(d, results) ==
    Cardinality({i \in 1..Len(results) : results[i].doc_id = d})
C15_ReportListsEachScannedOnce ==
    scan.done =>
        /\ report_file.state = "ok"
        /\ \A d \in Docs :
              /\ Occurrences(d, report_file.results) <= 1
              /\ (d \in scan.completed_ids \/ \E i \in 1..Len(scan.work_items) :
                                                  scan.work_items[i] = d)
                    => Occurrences(d, report_file.results) = 1

\* A run that was killed after a checkpoint, then resumed: the resuming run
\* skipped what the checkpoint held, scanned the rest and finished.
C15_Witness ==
    /\ scan.done
    /\ crashes > 0
    /\ scan.completed_ids # {}
    /\ scan.work_items # <<>>

\* C19: for every pending row the Text Extractor processes, if the local
\* binary is absent or an exception occurs during processing, the row's
\* extraction_status becomes error and is not set to extracted.
C19_FailedExtractionMarksError ==
    [][\A d \in Docs, skip_olmocr \in BOOLEAN, native \in NativeMetrics \cup {NativeFailed},
         olm \in OlmocrScores, sec \in SectionResults, rid \in LetterIds \cup {NoLetterId} :
          /\ (/\ extract_all(d, skip_olmocr, native, olm, rid, sec, FALSE)
              /\ (pdfs[get_pdf_path(rows[d])] = NoPdf \/ native = NativeFailed))
                => rows'[d].extraction_status = "error"
          /\ \A after_save \in BOOLEAN :
                extract_all_except(d, skip_olmocr, native, olm, rid, sec, after_save)
                    => rows'[d].extraction_status = "error"]_vars

\* A downloaded row whose binary is gone and which the extractor has marked.
C19_Witness ==
    \E d \in Docs :
        /\ rows[d].download_status = "downloaded"
        /\ pdfs[get_pdf_path(rows[d])] = NoPdf
        /\ rows[d].extraction_status = "error"

\* C20: when the structure of a unit is unexpected (the PDF cannot be parsed,
\* or parsing its text raises), the stage skips the unit without advancing
\* the row: it stays pending and the next run selects it again.
C20_ParseFailureLeavesPending ==
    [][\A d \in Docs, skip_olmocr \in BOOLEAN, native \in NativeMetrics \cup {NativeFailed},
         olm \in OlmocrScores, sec \in SectionResults, rid \in LetterIds \cup {NoLetterId} :
          (/\ pdfs[get_pdf_path(rows[d])] # NoPdf
           /\ \/ native = NativeFailed
                    /\ extract_all(d, skip_olmocr, native, olm, rid, sec, FALSE)
              \/ extract_all_except(d, skip_olmocr, native, olm, rid, sec, FALSE))
          => (rows'[d].extraction_status = "pending" /\ d \in get_pending_extractions')]_vars

\* C21: a successful synthesis sets the row's llm_extracted_at and clears
\* needs_llm_extraction, and from then on get_documents_needing_llm never
\* selects that row again, whatever later stages do to it.
C21_SynthesisedNeverSelectedAgain ==
    [][/\ \A d \in Docs, responses \in ResponseSeqs, llm_result \in LlmResults :
            (llm_process_document(d, responses, llm_result, FALSE) /\ llm_call'.ok)
            => /\ rows'[d].llm_extracted_at # NULL
               /\ rows'[d].needs_llm_extraction = 0
       /\ \A d \in Docs :
            rows[d].llm_extracted_at # NULL
            => (rows'[d].llm_extracted_at # NULL /\ d \notin get_documents_needing_llm')]_vars

\* A synthesised row that a later re-extraction has flagged again.
C21_Witness ==
    \E d \in Docs :
        /\ rows[d].llm_extracted_at # NULL
        /\ rows[d].needs_llm_extraction = 1
        /\ rows[d].extraction_status = "extracted"

\* C22: a question or conclusion present in the record before synthesis is
\* the same after it.
C22_PresentSectionsKept ==
    [][\A d \in Docs, responses \in ResponseSeqs, llm_result \in LlmResults,
         db_error \in BOOLEAN :
          llm_process_document(d, responses, llm_result, db_error)
          => LET p == rows[d].json_path
             IN  /\ recs[p].question # "" => recs'[p].question = recs[p].question
                 /\ recs[p].conclusion # "" => recs'[p].conclusion = recs[p].conclusion]_vars

\* A synthesised record that keeps the regex question and has the LLM's
\* conclusion.
C22_Witness ==
    \E p \in RecPaths :
        /\ recs[p] # NoRec
        /\ recs[p].sections_method = "llm"
        /\ recs[p].question = "regex question"
        /\ recs[p].conclusion = "llm text"

\* C23: a synthesis call makes at most 3 attempts; an unparseable response is
\* retried once (so at most two responses of one call are unparseable), and
\* a call abandoned with an error leaves the record and the row as they were.
C23_ParseFailureRetriedOnce ==
    [][\A d \in Docs, responses \in ResponseSeqs, llm_result \in LlmResults :
          llm_process_document(d, responses, llm_result, FALSE)
          => /\ llm_call'.attempts <= 3
             /\ llm_call'.parse_failures <= 2
             /\ ~llm_call'.ok => (rows' = rows /\ recs' = recs)]_vars

\* C24: the Document each stage reaches first is the one with the lowest
\* year and, within that year, the lowest surrogate key.
C24_StagesSeeAscendingYear ==
    \A set \in {get_pending_downloads, get_pending_extractions, get_documents_needing_llm} :
        set # {} =>
            \A e \in set :
                \/ rows[FirstOf(set)].year_tag < rows[e].year_tag
                \/ rows[FirstOf(set)].year_tag = rows[e].year_tag /\ FirstOf(set) <= e

\* C25: every pending row the Binary Fetcher handles ends as downloaded, or
\* as failed once MAX_RETRIES attempts have failed; each handled row leaves
\* the pending set, and a run over the pending rows comes to an end.
C25_FetchRunTerminates ==
    /\ [][\A d \in Docs, body \in Bodies, fails \in 0..MAX_RETRIES :
            download_pending(d, body, fails)
            => /\ rows'[d].download_status \in {"downloaded", "failed"}
               /\ rows'[d].download_status = "failed" => fails = MAX_RETRIES
               /\ get_pending_downloads' = get_pending_downloads \ {d}]_vars
    /\ <>(get_pending_downloads = {})

\* A finished run in which one row was downloaded and one failed.
C25_Witness ==
    /\ get_pending_downloads = {}
    /\ \E d \in Docs : rows[d].download_status = "failed"
    /\ \E d \in Docs : rows[d].download_status = "downloaded"

\* C26: a page fetch makes at most MAX_RETRIES attempts; every iteration of
\* the page loop of crawl_year either ends the loop or moves to the next
\* page, which is within the page count; and the loop comes to an end
\* whatever the fetches and the pages yield.
C26_CrawlYearTerminates ==
    /\ [](page_loop.attempts <= MAX_RETRIES)
    /\ [][(page_loop.running /\ page_loop'.running)
            => /\ page_loop'.page = page_loop.page + 1
               /\ page_loop'.page <= or_1(page_loop.total_pages)]_vars
    /\ (page_loop.running ~> ~page_loop.running)

\* A page loop that ended after a page that could not be fetched in
\* MAX_RETRIES attempts.
C26_Witness ==
    /\ ~page_loop.running
    /\ page_loop.page > page_loop.start_page
    /\ page_loop.attempts = MAX_RETRIES
    /\ page_loop.total_pages > 1

\* C27: after the citation-graph pass every prior-opinion reference of every
\* record file is either answered by the citing id in the cited_by of a
\* record it resolves to, or listed in the known gaps, never both; and every
\* cited_by entry of every record comes from such a resolving reference.
C27_EveryReferenceAccounted ==
    (call.op = "build_citation_graph" /\ call.passes > 0) =>
        LET files == call.files
            found == {p \in GraphPaths : files[p].exists}
            resolved(p, ref) ==
                /\ call.lookup[ref] # NoId
                /\ \E q \in found : /\ files[q].id = call.lookup[ref]
                                    /\ files[p].id \in files[q].cited_by
            in_gaps(ref) == \E g \in call.known_gaps : g.id = ref
        IN  /\ \A p \in found : \A ref \in files[p].prior_opinions :
                    resolved(p, ref) # in_gaps(ref)
            /\ \A q \in found : \A citing \in files[q].cited_by :
                    \E p \in found : /\ files[p].id = citing
                                      /\ \E ref \in files[p].prior_opinions :
                                            call.lookup[ref] = files[q].id

\* C28: after extraction, no id captured in the text that writes the
\* letter's own number (with the letter's prefix, with that prefix misread
\* by OCR, or with no prefix) is left in the letter's prior_opinions.
C28_NoSelfCitation ==
    (call.op = "extract_citations" /\ call.done) =>
        \A c \in call.captured :
            (/\ c.yy = call.letter_id.yy
             /\ c.nnn = call.letter_id.nnn
             /\ \/ c.prefix = ""
                \/ call.letter_id.prefix = ""
                \/ ocr_prefix_map(c.prefix) = call.letter_id.prefix)
            => normalize_prior_opinion(c) \notin call.prior_opinions

\* C29: when a letter is classified into a topic band, its confidence
\* equals the number of its statute references in that band divided by the
\* number of its statute references that fall in any of the three bands.
C29_ConfidenceIsShareOfBanded ==
    (/\ call.op = "classify"
     /\ call.done
     /\ call.classification.topic_primary \in DOMAIN TOPIC_RANGES) =>
        LET banded == {c \in call.government_code :
                          /\ extract_base_section(c) # NoSection
                          /\ classify_section(extract_base_section(c)) \in DOMAIN TOPIC_RANGES}
            in_primary == {c \in banded : classify_section(extract_base_section(c))
                                              = call.classification.topic_primary}
        IN  call.classification.confidence.num * Cardinality(banded)
                = Cardinality(in_primary) * call.classification.confidence.den

\* C30: every record file on disk deserialises, and serialising what was
\* deserialised gives the file's content again.
C30_RecordsRoundTrip ==
    \A p \in DOMAIN recs :
        recs[p] # NoRec =>
            /\ from_json(recs[p]) # TypeErrorRaised
            /\ to_json(from_json(recs[p])) = recs[p]

\* C31: the content of a section ends at the earliest of the next section
\* header, an end marker found at or after the end of its header, and the
\* end of the text.
C31_SectionEndsAtEarliest ==
    (call.op = "parse_sections" /\ call.done) =>
        \A e \in call.extracted :
            LET next_headers == {m.header_start : m \in {x \in call.matches :
                                                        x.header_start >= e.content_start}}
                markers == {o \in call.patterns[1] \cup call.patterns[2] :
                               o >= e.content_start}
            IN  e.content_end = SetMin({TextLen} \cup next_headers \cup markers)

\* C32: when a step replaces the text or the method of a row's record, the
\* fidelity score, method and tier that the row held before the step are
\* not all still on the row after it, unless the step assessed the new text
\* (the row's fidelity method then names the record's new method).
C32_FidelityFollowsText ==
    [][\A d \in Docs :
          LET p == rows[d].json_path
          IN  (/\ p # NoPath
               /\ recs[p] # NoRec
               /\ recs'[p] # NoRec
               /\ crashes' = crashes
               /\ rows'[d].json_path = p
               /\ rows[d].fidelity_method # NULL
               /\ \/ recs'[p].method # recs[p].method
                  \/ recs'[p].quality_score # recs[p].quality_score)
              => \/ <<rows'[d].fidelity_score, rows'[d].fidelity_method,
                       rows'[d].fidelity_risk>>
                       # <<rows[d].fidelity_score, rows[d].fidelity_method,
                           rows[d].fidelity_risk>>
                 \/ rows'[d].fidelity_method = recs'[p].method]_vars

\* C33: a fidelity verdict written by a later Verifier phase or by a repair
\* (Haiku verification, the Tesseract repair, a Haiku re-OCR) is never
\* replaced by the verdict of an earlier phase (the Tesseract canary).
VerdictPhase(method) ==
    IF method = "tesseract_canary" THEN 1
    ELSE IF method \in {"haiku_verified", "haiku_unreadable", "haiku_verified_tesseract"} THEN 2
    ELSE IF method = "haiku_vision" THEN 4
    ELSE 0
C33_LaterVerdictKept ==
    [][\A d \in Docs :
          VerdictPhase(rows'[d].fidelity_method) >= VerdictPhase(rows[d].fidelity_method)]_vars

\* C34: when crawl_all has reported completion, every result page of every
\* year of the range is among the pages that were fetched and processed.
C34_CompleteCrawlFetchedAll ==
    crawl_complete =>
        \A year \in CrawlYears : \A page \in 1 .. get_page_count(year) :
            <<year, page>> \in crawled

\* C35: the binary of a row marked downloaded is the complete body the site
\* serves for a URL that maps to that file, never a part of it.
C35_DownloadedBinaryIsComplete ==
    \A d \in Docs :
        rows[d].download_status = "downloaded" =>
            \E e \in Docs :
                /\ get_pdf_path(rows[e]) = get_pdf_path(rows[d])
                /\ pdfs[get_pdf_path(rows[d])] = ServedBody(e)

\* C36: no row is pending while the record file its json_path names is
\* still on disk: a repair that reset the row has put it back in a terminal
\* status however the re-extraction ended.
C36_NoPendingRowWithOldRecord ==
    \A d \in Docs :
        rows[d].extraction_status = "pending" =>
            \/ rows[d].json_path = NoPath
            \/ recs[rows[d].json_path] = NoRec

\* C37: the parsing notes of a record hold the notes of at most one LLM
\* write-back.
C37_AtMostOneWriteBack ==
    \A p \in DOMAIN recs :
        recs[p] # NoRec =>
            Cardinality({i \in DOMAIN recs[p].parsing_notes :
                            recs[p].parsing_notes[i][1] = "LLM"}) <= 1

\* C38: a step clears a row's needs-LLM flag only if it is a successful
\* synthesis (llm_extracted_at becomes set) or an extraction whose new
\* section parse, in the row's record, does not call for the LLM.
C38_FlagClearedOnlyBySynthesisOrParse ==
    [][\A d \in Docs :
          (rows[d].needs_llm_extraction = 1 /\ rows'[d].needs_llm_extraction = 0)
          => \/ rows[d].llm_extracted_at = NULL /\ rows'[d].llm_extracted_at # NULL
             \/ /\ rows'[d].extraction_status = "extracted"
                /\ rows'[d].json_path # NoPath
                /\ recs'[rows'[d].json_path] # NoRec
                /\ recs'[rows'[d].json_path].extraction_confidence >= 50
                /\ recs'[rows'[d].json_path].has_standard_format]_vars

\* C39: a row that is extracted and flagged as needing LLM synthesis is
\* eventually among the rows get_documents_needing_llm selects (unless the
\* flag is cleared or the row leaves the extracted status first).
C39_FlaggedEventuallySelected ==
    \A d \in Docs :
        (rows[d].extraction_status = "extracted" /\ rows[d].needs_llm_extraction = 1)
        ~> \/ d \in get_documents_needing_llm
           \/ rows[d].needs_llm_extraction = 0
           \/ rows[d].extraction_status # "extracted"

\* C40: under repeated resumed Phase 1 runs, a vision-OCR document whose scan
\* the saved report lists as an error is eventually an item of a later run
\* (or has its fidelity columns filled, or stops being a vision-OCR row, or
\* the report is left unreadable by a killed save).
C40_ErroredScanIsRetried ==
    \A d \in Docs :
        (/\ d \in get_olmocr_documents
         /\ report_file.state = "ok"
         /\ by_doc(report_file.results)[d].present
         /\ by_doc(report_file.results)[d].error
         /\ ~scan.running)
        ~> \/ scan.running /\ \E i \in 1..Len(scan.work_items) : scan.work_items[i] = d
           \/ rows[d].fidelity_method # NULL
           \/ d \notin get_olmocr_documents
           \/ report_file.state = "torn"

====
